---- MODULE Spec2Model ----
(***************************************************************************)
(* Verification model of the outbound-request boundary of hf-mcp-server:   *)
(* the URL policy engine (url-policy.ts), the address guard (ip-policy),   *)
(* the redirect-following request engine (safe-fetch.ts), the upstream     *)
(* call bridge (callGradioToolWithHeaders / callStreamableHttpTool) and    *)
(* the proxy tool registry cache (proxy-tools-config.ts).                  *)
(*                                                                         *)
(* Text is modelled as sequences of one-character strings, so that the     *)
(* code's string operations (prefix tests, splitting, percent-decoding)    *)
(* are computed rather than assumed.                                       *)
(***************************************************************************)
EXTENDS Integers, Sequences, FiniteSets, TLC

\* ------------------------------------------------------------------ text

StartsWith(s, p) == Len(p) <= Len(s) /\ SubSeq(s, 1, Len(p)) = p

EndsWith(s, p) == Len(p) <= Len(s) /\ SubSeq(s, Len(s) - Len(p) + 1, Len(s)) = p

Includes(s, c) == \E i \in 1..Len(s) : s[i] = c

\* String.prototype.replace(/\\/g, '/')
ReplaceBackslash(s) == [i \in 1..Len(s) |-> IF s[i] = "\\" THEN "/" ELSE s[i]]

\* String.prototype.split(sep) for a one-character separator
RECURSIVE SplitFrom(_, _, _, _)
SplitFrom(s, sep, i, cur) ==
    IF i > Len(s) THEN <<cur>>
    ELSE IF s[i] = sep THEN <<cur>> \o SplitFrom(s, sep, i + 1, <<>>)
    ELSE SplitFrom(s, sep, i + 1, Append(cur, s[i]))

Split(s, sep) == SplitFrom(s, sep, 1, <<>>)

HexDigits == {"0","1","2","3","4","5","6","7","8","9",
              "a","b","c","d","e","f","A","B","C","D","E","F"}

IsHexPairAt(s, i) == i + 1 <= Len(s) /\ s[i] \in HexDigits /\ s[i + 1] \in HexDigits

HexVal(c) ==
    CASE c = "0" -> 0 [] c = "1" -> 1 [] c = "2" -> 2 [] c = "3" -> 3
      [] c = "4" -> 4 [] c = "5" -> 5 [] c = "6" -> 6 [] c = "7" -> 7
      [] c = "8" -> 8 [] c = "9" -> 9
      [] c \in {"a","A"} -> 10 [] c \in {"b","B"} -> 11 [] c \in {"c","C"} -> 12
      [] c \in {"d","D"} -> 13 [] c \in {"e","E"} -> 14 [] c \in {"f","F"} -> 15
      [] OTHER -> 0 - 1

\* The character an ASCII byte decodes to; bytes outside the alphabet of the
\* model's paths decode to the letter "x", which is neither a separator, a dot
\* nor a percent sign.
AsciiChar(b) ==
    CASE b = 37 -> "%" [] b = 46 -> "." [] b = 47 -> "/" [] b = 92 -> "\\"
      [] b = 50 -> "2" [] b = 53 -> "5" [] b = 101 -> "e" [] b = 69 -> "E"
      [] b = 102 -> "f" [] b = 70 -> "F" [] b = 99 -> "c" [] b = 67 -> "C"
      [] OTHER -> "x"

DecodeError == "<URIError>"

\* decodeURIComponent: every %XY is replaced by the byte it names; a percent
\* sign without two hex digits, or a byte that is not a complete UTF-8 sequence
\* (a lone byte >= 0x80), throws URIError, modelled by the DecodeError element.
RECURSIVE DecodeFrom(_, _)
DecodeFrom(s, i) ==
    IF i > Len(s) THEN <<>>
    ELSE IF s[i] # "%" THEN <<s[i]>> \o DecodeFrom(s, i + 1)
    ELSE IF ~IsHexPairAt(s, i + 1) THEN <<DecodeError>>
    ELSE LET b == 16 * HexVal(s[i + 1]) + HexVal(s[i + 2])
         IN  IF b >= 128 THEN <<DecodeError>>
             ELSE <<AsciiChar(b)>> \o DecodeFrom(s, i + 3)

decodeURIComponent(s) == DecodeFrom(s, 1)

Throws(decoded) == Includes(decoded, DecodeError)

\* /%(?![0-9a-f]{2})/i
INVALID_PERCENT_ENCODING_RE(s) ==
    \E i \in 1..Len(s) : s[i] = "%" /\ ~IsHexPairAt(s, i + 1)

\* /%(?:2f|5c)/i
ENCODED_SEPARATOR_RE(s) ==
    \E i \in 1..Len(s) :
        /\ s[i] = "%"
        /\ i + 2 <= Len(s)
        /\ \/ s[i + 1] = "2" /\ s[i + 2] \in {"f", "F"}
           \/ s[i + 1] = "5" /\ s[i + 2] \in {"c", "C"}

\* /%[0-9a-f]{2}/i
ENCODED_BYTE_RE(s) == \E i \in 1..Len(s) : s[i] = "%" /\ IsHexPairAt(s, i + 1)

\* --------------------------------------------------- url-policy.ts

\* String.prototype.toLowerCase on the letters host names of the model use
LowerChar(c) ==
    CASE c = "H" -> "h" [] c = "F" -> "f" [] c = "C" -> "c" [] c = "O" -> "o"
      [] OTHER -> c

RECURSIVE StripTrailingDots(_)
StripTrailingDots(s) ==
    IF Len(s) > 0 /\ s[Len(s)] = "." THEN StripTrailingDots(SubSeq(s, 1, Len(s) - 1))
    ELSE s

normalizeHostname(hostname) ==
    StripTrailingDots([i \in 1..Len(hostname) |-> LowerChar(hostname[i])])

\* a collectDecodedPathVariants that decodes nothing
collectDecodedPathVariantsUndecoded(pathname) == [err |-> FALSE, variants |-> <<pathname>>]

\* The variants of a path: the path, then up to two further percent-decodings.
\* err is set when safeDecodeURIComponent throws.
collectDecodedPathVariants(pathname) ==
    IF ~Includes(pathname, "%") THEN [err |-> FALSE, variants |-> <<pathname>>]
    ELSE LET d1 == decodeURIComponent(pathname)
         IN  IF Throws(d1) THEN [err |-> TRUE, variants |-> <<pathname>>]
             ELSE IF d1 = pathname \/ ~Includes(d1, "%")
                  THEN [err |-> FALSE,
                        variants |-> IF d1 = pathname THEN <<pathname>> ELSE <<pathname, d1>>]
             ELSE LET d2 == decodeURIComponent(d1)
                  IN  IF Throws(d2) THEN [err |-> TRUE, variants |-> <<pathname, d1>>]
                      ELSE [err |-> FALSE,
                            variants |-> IF d2 = d1 THEN <<pathname, d1>>
                                         ELSE <<pathname, d1, d2>>]

hasDotSegments(pathname) ==
    LET segments == Split(ReplaceBackslash(pathname), "/")
    IN  \E i \in 1..Len(segments) : segments[i] \in {<<".">>, <<".", ".">>}

matchesRequiredPrefix(pathname, requiredPrefix) ==
    LET normalizedPath == ReplaceBackslash(pathname)
        normalizedPrefix == ReplaceBackslash(requiredPrefix)
    IN  \/ normalizedPath = normalizedPrefix
        \/ /\ EndsWith(normalizedPrefix, <<"/">>)
           /\ normalizedPath = SubSeq(normalizedPrefix, 1, Len(normalizedPrefix) - 1)
        \/ StartsWith(normalizedPath, normalizedPrefix)

NoError == "ok"

\* an assertHostAllowed that takes any name ending with the domain's characters
assertHostAllowedNoDotBoundary(hostname, policy) ==
    IF ~policy.hasAllowedHosts /\ policy.allowSubdomainsOf = {} THEN NoError
    ELSE IF \/ /\ policy.hasAllowedHosts
               /\ \E host \in policy.allowedHosts :
                     normalizeHostname(host) = normalizeHostname(hostname)
            \/ \E domain \in policy.allowSubdomainsOf :
                  EndsWith(normalizeHostname(hostname), normalizeHostname(domain))
    THEN NoError
    ELSE "URL hostname is not allowed"

\* "ok", or the message of the error assertHostAllowed throws
assertHostAllowed(hostname, policy) ==
    IF ~policy.hasAllowedHosts /\ policy.allowSubdomainsOf = {} THEN NoError
    ELSE LET normalized == normalizeHostname(hostname)
         IN  IF /\ policy.hasAllowedHosts
                /\ \E host \in policy.allowedHosts : normalizeHostname(host) = normalized
             THEN NoError
             ELSE IF \E domain \in policy.allowSubdomainsOf :
                        \/ normalized = normalizeHostname(domain)
                        \/ EndsWith(normalized, <<".">> \o normalizeHostname(domain))
             THEN NoError
             ELSE "URL hostname is not allowed"

assertPortAllowed(url, policy) ==
    IF ~policy.requireDefaultPort \/ url.port = "" THEN NoError
    ELSE LET defaultPort == IF url.protocol = "https:" THEN "443"
                            ELSE IF url.protocol = "http:" THEN "80" ELSE ""
         IN  IF defaultPort = "" \/ url.port # defaultPort
             THEN "URL port is not allowed for protocol"
             ELSE NoError

\* assertPathAllowed once collectDecodedPathVariants has run
assertPathVariantsAllowed(pathname, collected, requiredPrefix) ==
    LET variants == collected.variants
    IN  IF Includes(pathname, "%") /\ INVALID_PERCENT_ENCODING_RE(pathname)
        THEN "URL path contains invalid percent-encoding"
        ELSE IF collected.err THEN "URL contains invalid percent-encoding"
        ELSE IF \E i \in 1..Len(variants) : ENCODED_SEPARATOR_RE(variants[i])
        THEN "URL path contains encoded separators"
        ELSE IF \E i \in 1..Len(variants) : hasDotSegments(variants[i])
        THEN "URL path contains dot-segments"
        ELSE IF Len(variants) > 1 /\ ENCODED_BYTE_RE(variants[2])
        THEN "URL path appears to use double-encoding"
        ELSE IF /\ requiredPrefix # <<>>
                /\ ~\E i \in 1..Len(variants) : matchesRequiredPrefix(variants[i], requiredPrefix)
        THEN "URL path must start with"
        ELSE NoError

\* "ok", or the message of the error assertPathAllowed throws
assertPathAllowed(url, requiredPrefix) ==
    LET thrown == {assertPathVariantsAllowed(url.pathname, collected, requiredPrefix) :
                     collected \in {collectDecodedPathVariants(url.pathname)}}
    IN  CHOOSE message \in thrown : TRUE

assertQueryAllowed(url, policy) ==
    IF policy.queryRules \in {"unset", "allowAny"} THEN NoError
    ELSE IF policy.queryRules = "noKeys"
    THEN IF url.query # {} THEN "URL query string is not allowed" ELSE NoError
    ELSE IF \E key \in url.query : key \notin policy.allowKeys
    THEN "URL query parameter is not allowed"
    ELSE NoError

H_HF == <<"h","u","g","g","i","n","g","f","a","c","e",".","c","o">>

H_WWWHF == <<"w","w","w",".","h","u","g","g","i","n","g","f","a","c","e",".","c","o">>

H_GRADIO == <<"g","r","a","d","i","o",".","a","p","p">>

H_WWWGRADIO == <<"w","w","w",".","g","r","a","d","i","o",".","a","p","p">>

H_HFCO == <<"h","f",".","c","o">>

H_LOCALHOST == <<"l","o","c","a","l","h","o","s","t">>

H_LOOPBACK == <<"1","2","7",".","0",".","0",".","1">>

P_DOCS == <<"/","d","o","c","s","/">>

P_MCP == <<"/","g","r","a","d","i","o","_","a","p","i","/","m","c","p">>

P_SCHEMA == <<"/","g","r","a","d","i","o","_","a","p","i","/","m","c","p","/","s","c","h","e","m","a">>

LOCALHOST_HOSTS == {H_LOCALHOST, H_LOOPBACK, <<"[",":",":","1","]">>, <<":",":","1">>}

isLocalhostHostname(hostname) == normalizeHostname(hostname) \in LOCALHOST_HOSTS

\* a validateUrlAgainstPolicy that leaves the customValidator out
customValidatorSkipped(url, policy) == NoError

\* policy.customValidator?.(url): the validators the named policies install
customValidator(url, policy) ==
    IF policy.customValidator = "hfDocs"
    THEN IF /\ normalizeHostname(url.hostname) \in {H_HF, H_WWWHF}
            /\ ~matchesRequiredPrefix(url.pathname, P_DOCS)
         THEN "Hugging Face docs URLs must remain under /docs/"
         ELSE NoError
    ELSE IF policy.customValidator = "gradioMcp"
    THEN IF /\ policy.production
            /\ url.protocol = "http:"
            /\ ~isLocalhostHostname(url.hostname)
         THEN "HTTP is only allowed for localhost Gradio MCP endpoints"
         ELSE NoError
    ELSE NoError

\* The first of a sequence of checks that throws: its message, or "ok"
firstThrown(checks) ==
    IF \A i \in 1..Len(checks) : checks[i] = NoError THEN NoError
    ELSE checks[CHOOSE i \in 1..Len(checks) :
                    checks[i] # NoError /\ \A j \in 1..(i - 1) : checks[j] = NoError]

\* a validateUrlAgainstPolicy that runs the customValidator first
validateUrlAgainstPolicyCustomFirst(url, policy) ==
    firstThrown(<<customValidator(url, policy),
                  IF url.protocol \notin policy.allowedProtocols
                  THEN "URL protocol is not allowed" ELSE NoError,
                  IF ~policy.allowCredentials /\ url.creds
                  THEN "URL credentials are not allowed" ELSE NoError,
                  assertHostAllowed(url.hostname, policy),
                  assertPortAllowed(url, policy),
                  assertPathAllowed(url, policy.requiredPrefix),
                  assertQueryAllowed(url, policy)>>)

\* "ok", or the message of the first error validateUrlAgainstPolicy throws
validateUrlAgainstPolicy(url, policy) ==
    firstThrown(<<IF url.protocol \notin policy.allowedProtocols
                  THEN "URL protocol is not allowed" ELSE NoError,
                  IF ~policy.allowCredentials /\ url.creds
                  THEN "URL credentials are not allowed" ELSE NoError,
                  assertHostAllowed(url.hostname, policy),
                  assertPortAllowed(url, policy),
                  assertPathAllowed(url, policy.requiredPrefix),
                  assertQueryAllowed(url, policy),
                  customValidator(url, policy)>>)

\* parseAndValidateUrl re-parses its input (new URL(input.toString())) and
\* validates the result; the model's URLs are parsed URL records, on which the
\* re-parse of the serialisation gives the same record.
parseAndValidateUrl(input, policy) == validateUrlAgainstPolicy(input, policy)

BasePolicy ==
    [allowedProtocols |-> {"https:"}, hasAllowedHosts |-> FALSE, allowedHosts |-> {},
     allowSubdomainsOf |-> {}, requireDefaultPort |-> FALSE, requiredPrefix |-> <<>>,
     queryRules |-> "allowAny", allowKeys |-> {}, allowCredentials |-> FALSE,
     customValidator |-> "none", production |-> FALSE]

createHfDocsPolicy ==
    [BasePolicy EXCEPT !.hasAllowedHosts = TRUE,
                       !.allowedHosts = {H_HF, H_WWWHF, H_GRADIO, H_WWWGRADIO},
                       !.customValidator = "hfDocs"]

createExternalHttpsPolicy == BasePolicy

createHttpOrHttpsPolicy == [BasePolicy EXCEPT !.allowedProtocols = {"https:", "http:"}]

createGradioMcpPolicy(production) ==
    [BasePolicy EXCEPT !.allowedProtocols = {"https:", "http:"},
                       !.requiredPrefix = P_MCP,
                       !.customValidator = "gradioMcp",
                       !.production = production]

createHostPrefixPolicy(hostname, requiredPrefix, allowedProtocol) ==
    [BasePolicy EXCEPT !.allowedProtocols = {allowedProtocol},
                       !.hasAllowedHosts = TRUE,
                       !.allowedHosts = {[i \in 1..Len(hostname) |-> LowerChar(hostname[i])]},
                       !.requiredPrefix = requiredPrefix]

\* a createGradioMcpHostPolicy that pins the protocol and the path, not the host
createGradioMcpHostPolicyAnyHost(hostname, allowedProtocol) ==
    [createHostPrefixPolicy(hostname, P_MCP, allowedProtocol) EXCEPT
        !.hasAllowedHosts = FALSE]

createGradioMcpHostPolicy(hostname, allowedProtocol) ==
    createHostPrefixPolicy(hostname, P_MCP, allowedProtocol)


\* ------------------------------------------------------ ip-policy

\* Number.parseInt(part, 10) on a run of characters: the value of the leading
\* digits, or -1 for NaN (no leading digit)
RECURSIVE DigitsValue(_, _, _)
DigitsValue(part, i, acc) ==
    IF i > Len(part) \/ part[i] \notin {"0","1","2","3","4","5","6","7","8","9"}
    THEN IF i = 1 THEN 0 - 1 ELSE acc
    ELSE IF acc > 100000 THEN acc
    ELSE DigitsValue(part, i + 1, acc * 10 + HexVal(part[i]))

\* parseIpv4ToInt: the four octets (the code folds them into one 32-bit number,
\* kept here as the octet tuple, which orders the same way), or <<>> when it throws
parseIpv4ToInt(ip) ==
    LET parts == Split(ip, ".")
        nums == [i \in 1..Len(parts) |-> DigitsValue(parts[i], 1, 0)]
    IN  IF Len(parts) # 4 \/ \E i \in 1..Len(nums) : nums[i] < 0 \/ nums[i] > 255
        THEN <<>>
        ELSE nums

\* a <= b on 32-bit values given as octet tuples
OctetsLeq(a, b) ==
    LET ah == a[1] * 256 + a[2]
        al == a[3] * 256 + a[4]
        bh == b[1] * 256 + b[2]
        bl == b[3] * 256 + b[4]
    IN  ah < bh \/ (ah = bh /\ al <= bl)

\* an ipv4InRange whose upper end is left out
ipv4InRangeExclusive(ipValue, start, end) == OctetsLeq(start, ipValue) /\ ~OctetsLeq(end, ipValue)

ipv4InRange(ipValue, start, end) == OctetsLeq(start, ipValue) /\ OctetsLeq(ipValue, end)

isIpv4InternalOrReserved(ip) ==
    \E value \in {parseIpv4ToInt(ip)} :
        \/ ipv4InRange(value, <<0,0,0,0>>, <<0,255,255,255>>)
        \/ ipv4InRange(value, <<10,0,0,0>>, <<10,255,255,255>>)
        \/ ipv4InRange(value, <<100,64,0,0>>, <<100,127,255,255>>)
        \/ ipv4InRange(value, <<127,0,0,0>>, <<127,255,255,255>>)
        \/ ipv4InRange(value, <<169,254,0,0>>, <<169,254,255,255>>)
        \/ ipv4InRange(value, <<172,16,0,0>>, <<172,31,255,255>>)
        \/ ipv4InRange(value, <<192,0,0,0>>, <<192,0,0,255>>)
        \/ ipv4InRange(value, <<192,0,2,0>>, <<192,0,2,255>>)
        \/ ipv4InRange(value, <<192,88,99,0>>, <<192,88,99,255>>)
        \/ ipv4InRange(value, <<192,168,0,0>>, <<192,168,255,255>>)
        \/ ipv4InRange(value, <<198,18,0,0>>, <<198,19,255,255>>)
        \/ ipv4InRange(value, <<198,51,100,0>>, <<198,51,100,255>>)
        \/ ipv4InRange(value, <<203,0,113,0>>, <<203,0,113,255>>)
        \/ ipv4InRange(value, <<224,0,0,0>>, <<239,255,255,255>>)
        \/ ipv4InRange(value, <<240,0,0,0>>, <<255,255,255,255>>)

\* String.prototype.trim on the blanks of the model's texts
RECURSIVE Trim(_)
Trim(s) ==
    IF Len(s) > 0 /\ s[1] = " " THEN Trim(Tail(s))
    ELSE IF Len(s) > 0 /\ s[Len(s)] = " " THEN Trim(SubSeq(s, 1, Len(s) - 1))
    ELSE s

\* normalizeHostname of ip-policy: trim, lower case, no trailing dots
ipNormalizeHostname(hostname) == normalizeHostname(Trim(hostname))

\* normalizeIpLiteral: the text between the brackets of a bracketed literal
normalizeIpLiteral(host) ==
    IF StartsWith(host, <<"[">>) /\ EndsWith(host, <<"]">>)
    THEN SubSeq(host, 2, Len(host) - 1)
    ELSE host

\* String.prototype.indexOf of a character, 0 when it is absent
IndexOf(s, c) ==
    IF Includes(s, c)
    THEN CHOOSE i \in 1..Len(s) : s[i] = c /\ \A j \in 1..(i - 1) : s[j] # c
    ELSE 0

\* String.prototype.lastIndexOf of a character, 0 when it is absent
LastIndexOf(s, c) ==
    IF Includes(s, c)
    THEN CHOOSE i \in 1..Len(s) : s[i] = c /\ \A j \in (i + 1)..Len(s) : s[j] # c
    ELSE 0

\* String.prototype.split('::')
RECURSIVE SplitDoubleColon(_, _, _)
SplitDoubleColon(s, i, cur) ==
    IF i > Len(s) THEN <<cur>>
    ELSE IF i < Len(s) /\ s[i] = ":" /\ s[i + 1] = ":"
    THEN <<cur>> \o SplitDoubleColon(s, i + 2, <<>>)
    ELSE SplitDoubleColon(s, i + 1, Append(cur, s[i]))

\* Number.parseInt(part, 16) on a run of characters: the value of the leading
\* hex digits, or -1 for NaN (no leading hex digit); values beyond 16 bits are
\* all out of range and are not told apart
RECURSIVE HexDigitsValue(_, _, _)
HexDigitsValue(part, i, acc) ==
    IF i > Len(part) \/ part[i] \notin HexDigits
    THEN IF i = 1 THEN 0 - 1 ELSE acc
    ELSE IF acc > 65535 THEN acc
    ELSE HexDigitsValue(part, i + 1, acc * 16 + HexVal(part[i]))

HexChar(d) == <<"0","1","2","3","4","5","6","7","8","9","a","b","c","d","e","f">>[d + 1]

\* Number.prototype.toString(16)
RECURSIVE HexText(_)
HexText(n) == IF n < 16 THEN <<HexChar(n)>> ELSE Append(HexText(n \div 16), HexChar(n % 16))

\* Number.prototype.toString()
RECURSIVE DecText(_)
DecText(n) == IF n < 10 THEN <<HexChar(n)>> ELSE Append(DecText(n \div 10), HexChar(n % 10))

\* array.filter(Boolean) on texts: the non-empty ones
NonEmptyParts(parts) == SelectSeq(parts, LAMBDA p : p # <<>>)

Ipv6Invalid == <<"!">>

\* a parseIpv6ToBigInt that does not rewrite a dotted tail
ipv6WorkingDottedKept(ip) ==
    IF IndexOf(ip, "%") > 0 THEN SubSeq(ip, 1, IndexOf(ip, "%") - 1) ELSE ip

\* parseIpv6ToBigInt, lines 94-108: the text without its zone index, a dotted
\* tail rewritten as two hex groups; Ipv6Invalid where the code throws here
ipv6Working(ip) ==
    LET zoneIndex == IndexOf(ip, "%")
        zoneStripped == IF zoneIndex > 0 THEN SubSeq(ip, 1, zoneIndex - 1) ELSE ip
        lastColon == LastIndexOf(zoneStripped, ":")
        ipv4Value == parseIpv4ToInt(SubSeq(zoneStripped, lastColon + 1, Len(zoneStripped)))
    IN  IF ~Includes(zoneStripped, ".") THEN zoneStripped
        ELSE IF lastColon = 0 \/ ipv4Value = <<>> THEN Ipv6Invalid
        ELSE SubSeq(zoneStripped, 1, lastColon - 1)
                \o <<":">> \o HexText(ipv4Value[1] * 256 + ipv4Value[2])
                \o <<":">> \o HexText(ipv4Value[3] * 256 + ipv4Value[4])

\* parseIpv6ToBigInt once the text is rewritten (lines 110-141): the eight
\* 16-bit groups (the code folds them into one 128-bit number), or <<>> when
\* it throws
ipv6Groups(working) ==
    LET split == SplitDoubleColon(working, 1, <<>>)
        left == IF split[1] # <<>> THEN NonEmptyParts(Split(split[1], ":")) ELSE <<>>
        right == IF Len(split) > 1 /\ split[2] # <<>>
                 THEN NonEmptyParts(Split(split[2], ":")) ELSE <<>>
        missingCount == 8 - (Len(left) + Len(right))
        full == left \o [i \in 1..missingCount |-> <<"0">>] \o right
        segments == [i \in 1..Len(full) |-> HexDigitsValue(full[i], 1, 0)]
    IN  IF \/ working = Ipv6Invalid
           \/ Len(split) > 2
           \/ (Len(split) = 1 /\ missingCount # 0)
           \/ missingCount < 0
        THEN <<>>
        ELSE IF \E i \in 1..Len(segments) : segments[i] < 0 \/ segments[i] > 65535
        THEN <<>>
        ELSE segments

parseIpv6ToBigInt(ip) ==
    LET parsed == {ipv6Groups(working) : working \in {ipv6Working(ip)}}
    IN  CHOOSE groups \in parsed : TRUE

RECURSIVE Pow2(_)
Pow2(n) == IF n = 0 THEN 1 ELSE 2 * Pow2(n - 1)

\* isIpv6InCidr: the leading prefixLength bits of the two values agree
isIpv6InCidr(ipValue, prefixValue, prefixLength) ==
    LET whole == prefixLength \div 16
        bits == prefixLength % 16
    IN  /\ \A i \in 1..whole : ipValue[i] = prefixValue[i]
        /\ bits > 0 =>
              ipValue[whole + 1] \div Pow2(16 - bits) = prefixValue[whole + 1] \div Pow2(16 - bits)

\* isIpv6InternalOrReserved on a text parseIpv6ToBigInt accepts
isIpv6InternalOrReserved(ip) ==
    \E value \in {parseIpv6ToBigInt(ip)} :
        IF value \in {<<0,0,0,0,0,0,0,0>>, <<0,0,0,0,0,0,0,1>>} THEN TRUE
        ELSE IF SubSeq(value, 1, 6) = <<0,0,0,0,0,65535>>
        THEN isIpv4InternalOrReserved(
                 DecText(value[7] \div 256) \o <<".">> \o DecText(value[7] % 256) \o <<".">>
                    \o DecText(value[8] \div 256) \o <<".">> \o DecText(value[8] % 256))
        ELSE \/ isIpv6InCidr(value, <<64512,0,0,0,0,0,0,0>>, 7)
             \/ isIpv6InCidr(value, <<65152,0,0,0,0,0,0,0>>, 10)
             \/ isIpv6InCidr(value, <<65280,0,0,0,0,0,0,0>>, 8)
             \/ isIpv6InCidr(value, <<8193,3512,0,0,0,0,0,0>>, 32)
             \/ isIpv6InCidr(value, <<8193,16,0,0,0,0,0,0>>, 28)

detectIpVersion(candidate) ==
    IF parseIpv4ToInt(candidate) # <<>> THEN 4
    ELSE IF parseIpv6ToBigInt(candidate) # <<>> THEN 6
    ELSE 0

\* isIpInternalOrReserved on the text of an address (on any other text the code
\* throws "Invalid IP address"; the model's callers pass addresses only)
isIpInternalOrReserved(ip) ==
    \E ipVersion \in {detectIpVersion(normalizeIpLiteral(ip))} :
        IF ipVersion = 4 THEN isIpv4InternalOrReserved(normalizeIpLiteral(ip))
        ELSE IF ipVersion = 6 THEN isIpv6InternalOrReserved(normalizeIpLiteral(ip))
        ELSE FALSE

\* a wildcard match that does not ask for the dot before the domain
hostnameMatchesPatternNoDot(hostname, pattern) ==
    IF StartsWith(pattern, <<"*", ".">>)
    THEN EndsWith(hostname, SubSeq(pattern, 3, Len(pattern)))
    ELSE hostname = pattern

hostnameMatchesPattern(hostname, pattern) ==
    IF StartsWith(pattern, <<"*", ".">>)
    THEN LET baseDomain == SubSeq(pattern, 3, Len(pattern))
         IN  /\ baseDomain # <<>>
             /\ (hostname = baseDomain \/ EndsWith(hostname, <<".">> \o baseDomain))
    ELSE hostname = pattern

\* getInternalAddressHostAllowlist: the entries of the comma-separated
\* ALLOW_INTERNAL_ADDRESS_HOSTS, normalised, the empty ones left out
getInternalAddressHostAllowlist(raw) ==
    LET entries == Split(raw, ",")
    IN  {ipNormalizeHostname(entries[i]) : i \in 1..Len(entries)} \ {<<>>}

\* isInternalAddressAllowedForHostname; allowlist is the set of entries of
\* ALLOW_INTERNAL_ADDRESS_HOSTS
isInternalAddressAllowedForHostname(hostname, allowlist) ==
    LET normalizedHostname == ipNormalizeHostname(hostname)
    IN  /\ normalizedHostname # <<>>
        /\ \E pattern \in allowlist :
              /\ ipNormalizeHostname(pattern) # <<>>
              /\ hostnameMatchesPattern(normalizedHostname, ipNormalizeHostname(pattern))

\* an assertExternalAddress that takes an empty answer for a harmless one
assertExternalAddressEmptyAccepted(hostname, allowlist, firstLookup, secondLookup) ==
    LET normalized == ipNormalizeHostname(hostname)
        allowInternalAddress == isInternalAddressAllowedForHostname(normalized, allowlist)
        ipLiteral == normalizeIpLiteral(normalized)
    IN  IF normalized = <<>> THEN "Hostname is required for external address check"
        ELSE IF detectIpVersion(ipLiteral) # 0
        THEN IF isIpInternalOrReserved(ipLiteral)
             THEN "Blocked internal or reserved address"
             ELSE NoError
        ELSE IF \E address \in firstLookup \cup secondLookup :
                    isIpInternalOrReserved(address) /\ ~allowInternalAddress
        THEN "Blocked internal or reserved address for hostname"
        ELSE NoError

\* assertExternalAddress: "ok" or the message of the error thrown. firstLookup
\* and secondLookup are the address sets the two DNS resolutions return.
assertExternalAddress(hostname, allowlist, firstLookup, secondLookup) ==
    LET normalized == ipNormalizeHostname(hostname)
        allowInternalAddress == isInternalAddressAllowedForHostname(normalized, allowlist)
        ipLiteral == normalizeIpLiteral(normalized)
    IN  IF normalized = <<>> THEN "Hostname is required for external address check"
        ELSE IF detectIpVersion(ipLiteral) # 0
        THEN IF isIpInternalOrReserved(ipLiteral)
             THEN "Blocked internal or reserved address"
             ELSE NoError
        ELSE IF firstLookup = {} THEN "No DNS records found for hostname"
        ELSE IF \E address \in firstLookup :
                    isIpInternalOrReserved(address) /\ ~allowInternalAddress
        THEN "Blocked internal or reserved address for hostname"
        ELSE IF \E address \in secondLookup :
                    isIpInternalOrReserved(address) /\ ~allowInternalAddress
        THEN "Blocked internal or reserved address for hostname"
        ELSE NoError


\* -------------------------------------------------------- safe-fetch.ts

VARIABLES
    opts,      \* safeFetch: the options of the call
    call,      \* safeFetch: its locals and where it stands
    tmo,       \* fetchWithTimeout: the locals of the exchange in flight
    net,       \* the HTTP exchanges issued so far, as the network saw them
    body,      \* the response body stream handed to the caller
    bridge,    \* a forwarded tool call: its locals and where it stands
    session,   \* the upstream protocol session of the forwarded call
    relay,     \* the caller's side of the forwarded call: its signal, its notifications
    registry,  \* proxy-tools-config.ts: the module's cache and the computation filling it
    callers,   \* the callers of loadProxyToolsConfig
    discovery, \* loadProxyToolSchemas: the parsed sources and their schema tasks
    probe,     \* one application of a policy function: its input and what it gave
    logger,    \* HfDatasetLogger: its buffer, its upload in flight, what became of each entry
    invoke     \* invokeSpace: where it stands and what it returned

fetchVars == <<opts, call, tmo, net, body>>

bridgeVars == <<bridge, session, relay>>

registryVars == <<registry, callers>>

discoveryVars == <<discovery>>

policyVars == <<probe>>

invokeVars == <<invoke>>

loggerVars == <<logger>>

REDIRECT_STATUSES == {301, 302, 303, 307, 308}

SENSITIVE_HEADERS == {"authorization", "proxy-authorization", "cookie", "x-hf-authorization"}

isRedirectStatus(status) == status \in REDIRECT_STATUSES

\* Header names in the order the Headers class iterates them (sorted, lower case)
HeaderOrder ==
    <<"accept", "authorization", "content-length", "content-type", "cookie",
      "proxy-authorization", "x-hf-authorization">>

\* new Headers(init) lower-cases the names it is given
LowerHeader(name) ==
    CASE name = "Accept" -> "accept"
      [] name = "Authorization" -> "authorization"
      [] name = "Content-Length" -> "content-length"
      [] name = "Content-Type" -> "content-type"
      [] name = "Cookie" -> "cookie"
      [] name = "Proxy-Authorization" -> "proxy-authorization"
      [] name = "X-HF-Authorization" -> "x-hf-authorization"
      [] OTHER -> name

NewHeaders(init) == {LowerHeader(name) : name \in init}

\* The names of a Headers object as its iterator lists them
SortedNames(headers) == SelectSeq(HeaderOrder, LAMBDA name : name \in headers)

dropSensitiveHeaders(headersInit) == NewHeaders(headersInit) \ SENSITIVE_HEADERS

\* baseHeaders.forEach((_, key) => baseHeaders.delete(key)): Headers.forEach
\* re-reads the sorted list of the object after each callback and advances its
\* index by one, so a callback that deletes the entry it visits makes the
\* iteration skip the entry that moved into its place.
RECURSIVE ForEachDelete(_, _)
ForEachDelete(headers, index) ==
    LET pairs == SortedNames(headers)
    IN  IF index >= Len(pairs) THEN headers
        ELSE ForEachDelete(headers \ {pairs[index + 1]}, index + 1)

stripHeadersForRedirectAnyOrigin(baseHeaders, strip, currentOrigin, nextOrigin) ==
    IF strip
    THEN ForEachDelete(baseHeaders, 0) \cup dropSensitiveHeaders(baseHeaders)
    ELSE baseHeaders

\* a stripping after which a redirect within an origin carries the sensitive
\* headers again
stripHeadersForRedirectFromInit(baseHeaders, strip, currentOrigin, nextOrigin) ==
    IF strip /\ currentOrigin # nextOrigin
    THEN ForEachDelete(baseHeaders, 0) \cup dropSensitiveHeaders(baseHeaders)
    ELSE baseHeaders \cup SENSITIVE_HEADERS

\* safeFetch lines 166-174: the headers of the next hop
stripHeadersForRedirect(baseHeaders, strip, currentOrigin, nextOrigin) ==
    IF strip /\ currentOrigin # nextOrigin
    THEN ForEachDelete(baseHeaders, 0) \cup dropSensitiveHeaders(baseHeaders)
    ELSE baseHeaders

\* URL.origin: scheme, host and port
Origin(url) == <<url.protocol, url.hostname, url.port>>

Url(protocol, hostname, port, pathname) ==
    [protocol |-> protocol, creds |-> FALSE, hostname |-> hostname, port |-> port,
     pathname |-> pathname, query |-> {}]

H_EXAMPLE == <<"e","x","a","m","p","l","e",".","c","o","m">>

A_PUBLIC == <<"8",".","8",".","8",".","8">>

A_PRIVATE == <<"1","0",".","0",".","0",".","1">>

P_DOCS_START == <<"/","d","o","c","s","/","s","t","a","r","t">>

P_DOCS_NEXT == <<"/","d","o","c","s","/","n","e","x","t">>

P_SECRET == <<"/","s","e","c","r","e","t">>

P_TRAVERSAL == <<"/","d","o","c","s","/",".",".","%","2","f","s","e","c","r","e","t">>

P_FILE == <<"/","f","i","l","e",".","w","a","v">>

U_DOCS_START == Url("https:", H_HF, "", P_DOCS_START)

U_EXAMPLE == Url("https:", H_EXAMPLE, "", P_FILE)

U_LOOPBACK == Url("https:", H_LOOPBACK, "", P_FILE)

U_WWW_NEXT == Url("https:", H_WWWHF, "", P_DOCS_NEXT)

U_PORT_NEXT == Url("https:", H_HF, "8443", P_DOCS_NEXT)

U_HTTP_DOCS == Url("http:", H_HF, "", P_DOCS_START)

U_TRAVERSAL == Url("https:", H_HF, "", P_TRAVERSAL)

\* A Gradio space's host `${subdomain}.hf.space`, its MCP endpoint, and the
\* MCP endpoint of a local Gradio server
H_SPACE == <<"a",".","h","f",".","s","p","a","c","e">>

U_SPACE_MCP == Url("https:", H_SPACE, "", P_MCP)

U_LOCALHOST_MCP == Url("http:", H_LOCALHOST, "", P_MCP)

\* The URLs the transport of a forwarded Gradio call asks its fetch for: the
\* endpoint, and URLs with another protocol, another path, another host
GradioRequestUrls ==
    {U_SPACE_MCP, U_LOCALHOST_MCP,
     Url("http:", H_SPACE, "", P_MCP),
     Url("https:", H_SPACE, "", P_FILE),
     Url("https:", H_EXAMPLE, "", P_MCP)}

\* The URLs a caller starts from
InitialUrls == {U_DOCS_START, U_EXAMPLE, U_LOOPBACK}

\* The absolute URLs a Location header names
AbsoluteUrls ==
    {U_DOCS_START, U_EXAMPLE, U_LOOPBACK, U_WWW_NEXT, U_PORT_NEXT, U_HTTP_DOCS, U_TRAVERSAL}

\* The paths a relative Location header names
RelativePaths == {P_DOCS_NEXT, P_SECRET}

NoLocation == [kind |-> "none", url |-> U_DOCS_START]

\* The Location headers a server answers with: none, an unparsable one, an
\* absolute URL, or a path relative to the URL that was requested
Locations ==
    {NoLocation, [kind |-> "invalid", url |-> U_DOCS_START]}
    \cup {[kind |-> "abs", url |-> u] : u \in AbsoluteUrls}
    \cup {[kind |-> "rel", url |-> Url("", <<>>, "", path)] : path \in RelativePaths}

\* new URL(location, currentUrl)
ResolveLocation(location, currentUrl) ==
    IF location.kind = "abs" THEN location.url
    ELSE [currentUrl EXCEPT !.pathname = location.url.pathname,
                            !.query = location.url.query]

Statuses == {200, 304, 301, 302, 303, 307, 308}

\* The answers of one DNS resolution
\* process.env.ALLOW_INTERNAL_ADDRESS_HOSTS is unset in the calls modelled
ALLOW_INTERNAL_ADDRESS_HOSTS == {}

DnsAnswers == {{A_PUBLIC}, {A_PUBLIC, A_PRIVATE}}

MaxRedirectsBound == 2

RequestTimeoutMs == 5

HeaderInits ==
    {{"Authorization"}, {"Accept", "Authorization"},
     {"Content-Type", "Cookie", "Proxy-Authorization", "X-HF-Authorization"}}

\* The policies a call is made with, by the name of the factory that builds them
Policies == {"createHfDocsPolicy", "createExternalHttpsPolicy"}

\* The policies of the profile gradioMcpHost(hostname, protocol), by the
\* validated endpoint they are built from
GradioPolicies == {"gradioMcpHost:space", "gradioMcpHost:localhost"}

gradioTargetOf(name) ==
    IF name = "gradioMcpHost:space" THEN U_SPACE_MCP ELSE U_LOCALHOST_MCP

\* options.urlPolicy: the policy object the named factory returns
urlPolicyOf(name) ==
    IF name = "createHfDocsPolicy" THEN createHfDocsPolicy
    ELSE IF name \in GradioPolicies
    THEN createGradioMcpHostPolicy(gradioTargetOf(name).hostname,
                                   gradioTargetOf(name).protocol)
    ELSE createExternalHttpsPolicy

\* (requestInit.method || 'GET').toUpperCase()
UpperMethod(method) ==
    CASE method = "" -> "GET" [] method = "post" -> "POST" [] OTHER -> method

NoOpts ==
    [urlPolicy |-> "createExternalHttpsPolicy", timeoutMs |-> 0, maxRedirects |-> 0, externalOnly |-> FALSE,
     strip |-> TRUE, hasSignal |-> FALSE]

CallIdle ==
    [pc |-> "idle", currentUrl |-> U_DOCS_START, currentMethod |-> "", currentBody |-> FALSE,
     baseHeaders |-> {}, redirectsFollowed |-> 0, error |-> "", status |-> 0]

TmoIdle ==
    [timerArmed |-> FALSE, listenerAttached |-> FALSE, didTimeout |-> FALSE,
     wasExternallyAborted |-> FALSE, controllerAborted |-> FALSE, signal |-> "none",
     elapsed |-> FALSE, outerAborted |-> FALSE]

\* What the network and the checks have seen of the call: the exchanges begun
\* and answered, the URL last handed to parseAndValidateUrl, the host name that
\* last passed assertExternalAddress, whether the last redirect changed origin,
\* the URL of the last exchange begun, whether a response with a redirect
\* status and no Location header has arrived
NetIdle ==
    [nExchanges |-> 0, nResponses |-> 0, candidate |-> U_DOCS_START, addrChecked |-> <<>>,
     crossOrigin |-> FALSE, lastUrl |-> U_DOCS_START, noLocationSeen |-> FALSE]

BodyNone == [state |-> "none", signal |-> "none"]


\* withMethodAndBody: the body goes out only with a method other than GET and HEAD
withMethodAndBody(method, hasBody) == hasBody /\ method \notin {"GET", "HEAD"}

\* safeFetch throws: its locals are gone, the caller has the error
Failed(c, message) == [CallIdle EXCEPT !.pc = "failed", !.error = message]

ReturnedCountingExchanges(c, status) ==
    [CallIdle EXCEPT !.pc = "done", !.status = status, !.currentUrl = c.currentUrl,
                     !.redirectsFollowed = c.redirectsFollowed + 1]

\* safeFetch returns {response, finalUrl, redirectsFollowed}
Returned(c, status) ==
    [CallIdle EXCEPT !.pc = "done", !.status = status, !.currentUrl = c.currentUrl,
                     !.redirectsFollowed = c.redirectsFollowed]

\* The request fetch() is given for the current hop (safeFetch lines 132-141)
Request(c) ==
    [url |-> c.currentUrl, method |-> c.currentMethod, headers |-> c.baseHeaders,
     body |-> withMethodAndBody(c.currentMethod, c.currentBody)]

\* fetch() is called for a URL: one more HTTP exchange is on the wire
Sent(n, url) == [n EXCEPT !.nExchanges = @ + 1, !.lastUrl = url]

\* fetchWithTimeout's finally block: clearTimeout and removeEventListener
finallyClear(t) == [t EXCEPT !.timerArmed = FALSE, !.listenerAttached = FALSE]

abortErrorMessageAlwaysTimeout(wasExternallyAborted, didTimeout) == "Request timed out"

\* fetchWithTimeout's catch block on an AbortError
abortErrorMessage(wasExternallyAborted, didTimeout) ==
    IF wasExternallyAborted THEN "Request was aborted"
    ELSE IF didTimeout THEN "Request timed out"
    ELSE "Request timed out"

\* fetchWithTimeout up to its await of fetch(): the state after the call, as
\* [call, tmo, net]
fetchWithTimeoutStart(o, c, t, n) ==
    LET fresh == [TmoIdle EXCEPT !.outerAborted = t.outerAborted]
    IN  IF o.timeoutMs <= 0
        THEN IF o.hasSignal /\ t.outerAborted
             THEN [call |-> Failed(c, "AbortError"), tmo |-> fresh, net |-> n]
             ELSE [call |-> [c EXCEPT !.pc = "inflight"],
                   tmo |-> [fresh EXCEPT !.signal = IF o.hasSignal THEN "outer" ELSE "none"],
                   net |-> Sent(n, c.currentUrl)]
        ELSE IF o.hasSignal /\ t.outerAborted
             THEN [call |-> Failed(c, "Request was aborted"), tmo |-> fresh, net |-> n]
             ELSE [call |-> [c EXCEPT !.pc = "inflight"],
                   tmo |-> [fresh EXCEPT !.timerArmed = TRUE,
                                         !.listenerAttached = o.hasSignal,
                                         !.signal = "controller"],
                   net |-> Sent(n, c.currentUrl)]

\* Every URL a call starts from or is redirected to
ModelUrls ==
    {[u EXCEPT !.pathname = path] :
        u \in AbsoluteUrls \cup GradioRequestUrls,
        path \in RelativePaths \cup {v.pathname : v \in AbsoluteUrls \cup GradioRequestUrls}}

ModelHosts == {u.hostname : u \in ModelUrls}

\* parseAndValidateUrl is a function of the URL and the policy: its results
\* on the URLs of the model, computed once
urlVerdict ==
    [name \in Policies \cup GradioPolicies |->
        [url \in ModelUrls |-> parseAndValidateUrl(url, urlPolicyOf(name))]]

\* assertExternalAddress is a function of the host name and of what the two DNS
\* resolutions answer: its results on the hosts of the model, computed once
addressVerdict ==
    [hostname \in ModelHosts |->
        [firstLookup \in DnsAnswers \cup {{}} |->
            [secondLookup \in DnsAnswers \cup {{}} |->
                assertExternalAddress(hostname, ALLOW_INTERNAL_ADDRESS_HOSTS,
                                      firstLookup, secondLookup)]]]

\* The hosts that are no IP literal, which assertExternalAddress resolves
resolvedHosts ==
    {hostname \in ModelHosts : detectIpVersion(normalizeHostname(hostname)) = 0}

\* parseAndValidateUrl, then assertExternalAddress when externalOnly: the error
\* thrown ("ok" if none) and the host name that passed the address check, if any
destinationChecked(externalOnly, hostname, validated, asserted) ==
    IF validated # NoError THEN [err |-> validated, checked |-> <<>>]
    ELSE IF ~externalOnly THEN [err |-> NoError, checked |-> <<>>]
    ELSE [err |-> asserted, checked |-> IF asserted = NoError THEN hostname ELSE <<>>]

checkDestination(url, o, firstLookup, secondLookup) ==
    destinationChecked(o.externalOnly, url.hostname, urlVerdict[o.urlPolicy][url],
                       addressVerdict[url.hostname][firstLookup][secondLookup])

checkInitialUrlNoAddressCheck(url, o, firstLookup, secondLookup) ==
    checkDestination(url, [o EXCEPT !.externalOnly = FALSE], firstLookup, secondLookup)

\* safeFetch lines 121-124
checkInitialUrl(url, o, firstLookup, secondLookup) ==
    checkDestination(url, o, firstLookup, secondLookup)

checkRedirectTargetUnvalidated(nextCandidate, o, firstLookup, secondLookup) ==
    [err |-> NoError, checked |-> nextCandidate.hostname]

checkRedirectTargetOtherPolicy(nextCandidate, o, firstLookup, secondLookup) ==
    checkDestination(nextCandidate, [o EXCEPT !.urlPolicy = "createExternalHttpsPolicy"],
                     firstLookup, secondLookup)

\* safeFetch lines 160-164
checkRedirectTarget(nextCandidate, o, firstLookup, secondLookup) ==
    checkDestination(nextCandidate, o, firstLookup, secondLookup)

redirectLimitReachedLate(redirectsFollowed, maxRedirects) == redirectsFollowed > maxRedirects

\* safeFetch line 151
redirectLimitReached(redirectsFollowed, maxRedirects) == redirectsFollowed >= maxRedirects

downgradesToGetOnAnyRedirect(status, currentMethod) == TRUE

locationMissingNever(location) == FALSE

\* safeFetch lines 155-158: response.headers.get('location') is null or empty
locationMissing(location) == location.kind = "none"

\* safeFetch lines 176-181
downgradesToGet(status, currentMethod) ==
    status = 303 \/ (status \in {301, 302} /\ currentMethod = "POST")

\* The lookups a destination needs: none unless externalOnly asks for the
\* address check of a host name that is no IP literal
LookupsFor(url, o) ==
    IF o.externalOnly /\ url.hostname \in resolvedHosts
    THEN DnsAnswers
    ELSE {{}}

\* safeFetch(url, options) up to its first await
SafeFetch ==
    /\ call.pc = "idle"
    /\ \E url \in InitialUrls, urlPolicy \in Policies, externalOnly \in BOOLEAN,
          maxRedirects \in (0 - 1)..MaxRedirectsBound, strip \in BOOLEAN,
          timeoutMs \in {0, RequestTimeoutMs}, hasSignal \in BOOLEAN,
          method \in {"", "post"}, headers \in HeaderInits :
          LET o == [urlPolicy |-> urlPolicy, timeoutMs |-> timeoutMs,
                    maxRedirects |-> maxRedirects, externalOnly |-> externalOnly,
                    strip |-> strip, hasSignal |-> hasSignal]
          IN  /\ opts' = o
              /\ \E firstLookup \in LookupsFor(url, o), secondLookup \in LookupsFor(url, o) :
                    \E chk \in {checkInitialUrl(url, o, firstLookup, secondLookup)} :
                        IF maxRedirects < 0
                        THEN /\ call' = Failed(call, "maxRedirects must be >= 0")
                             /\ net' = net
                        ELSE IF chk.err # NoError
                        THEN /\ call' = Failed(call, chk.err)
                             /\ net' = [net EXCEPT !.candidate = url]
                        ELSE /\ call' = [call EXCEPT !.pc = "hop",
                                                    !.currentUrl = url,
                                                    !.currentMethod = UpperMethod(method),
                                                    !.currentBody = (method = "post"),
                                                    !.baseHeaders = NewHeaders(headers)]
                             /\ net' = [net EXCEPT !.candidate = url,
                                                  !.addrChecked = chk.checked]
    /\ UNCHANGED <<tmo, body>>
    /\ UNCHANGED <<bridgeVars, registryVars, discoveryVars, policyVars, invokeVars, loggerVars>>

\* NETWORK_FETCH_PROFILES.gradioMcpHost(hostname, protocol), as the options
\* fetchWithProfile hands to safeFetch
gradioMcpHost(name, nodeEnvTest, hasSignal) ==
    [urlPolicy |-> name, timeoutMs |-> 0, maxRedirects |-> 0,
     externalOnly |-> ~isLocalhostHostname(gradioTargetOf(name).hostname) /\ ~nodeEnvTest,
     strip |-> TRUE, hasSignal |-> hasSignal]

\* captureHeadersFetch of callGradioToolWithHeaders: the transport of a call
\* forwarded to a validated endpoint asks for a URL, and fetchWithProfile calls
\* safeFetch with the profile of that endpoint, up to safeFetch's first await
GradioTransportFetch ==
    /\ call.pc = "idle"
    /\ \E name \in GradioPolicies, url \in GradioRequestUrls, nodeEnvTest \in BOOLEAN,
          hasSignal \in BOOLEAN, method \in {"", "post"}, headers \in HeaderInits :
          \E o \in {gradioMcpHost(name, nodeEnvTest, hasSignal)} :
              /\ opts' = o
              /\ \E firstLookup \in LookupsFor(url, o), secondLookup \in LookupsFor(url, o) :
                    \E chk \in {checkInitialUrl(url, o, firstLookup, secondLookup)} :
                        IF chk.err # NoError
                        THEN /\ call' = Failed(call, chk.err)
                             /\ net' = [net EXCEPT !.candidate = url]
                        ELSE /\ call' = [call EXCEPT !.pc = "hop",
                                                    !.currentUrl = url,
                                                    !.currentMethod = UpperMethod(method),
                                                    !.currentBody = (method = "post"),
                                                    !.baseHeaders = NewHeaders(headers)]
                             /\ net' = [net EXCEPT !.candidate = url,
                                                  !.addrChecked = chk.checked]
    /\ UNCHANGED <<tmo, body>>
    /\ UNCHANGED <<bridgeVars, registryVars, discoveryVars, policyVars, invokeVars, loggerVars>>

\* The top of safeFetch's loop: fetchWithTimeout is called for the current hop
NextExchange ==
    /\ call.pc = "hop"
    /\ LET r == fetchWithTimeoutStart(opts, call, tmo, net)
       IN  /\ call' = r.call
           /\ tmo' = r.tmo
           /\ net' = r.net
    /\ UNCHANGED <<opts, body>>
    /\ UNCHANGED <<bridgeVars, registryVars, discoveryVars, policyVars, invokeVars, loggerVars>>

\* fetch() resolves with a response that is no redirect: fetchWithTimeout's
\* finally, then safeFetch returns (lines 143-149)
RespondFinal ==
    /\ call.pc = "inflight"
    /\ \E status \in Statuses \ REDIRECT_STATUSES :
          /\ ~isRedirectStatus(status)
          /\ call' = Returned(call, status)
          /\ net' = [net EXCEPT !.nResponses = @ + 1]
    /\ tmo' = finallyClear(tmo)
    /\ body' = [state |-> "open", signal |-> tmo.signal]
    /\ UNCHANGED opts
    /\ UNCHANGED <<bridgeVars, registryVars, discoveryVars, policyVars, invokeVars, loggerVars>>

\* fetch() resolves with a redirect: fetchWithTimeout's finally, then safeFetch
\* lines 151-186, up to the next call of fetchWithTimeout
RespondRedirect ==
    /\ call.pc = "inflight"
    /\ \E status \in Statuses, location \in Locations :
          LET nextUrl == ResolveLocation(location, call.currentUrl)
              toGet == downgradesToGet(status, call.currentMethod)
              stripped == stripHeadersForRedirect(call.baseHeaders, opts.strip,
                                                  Origin(call.currentUrl), Origin(nextUrl))
              lookups == IF redirectLimitReached(call.redirectsFollowed, opts.maxRedirects)
                            \/ locationMissing(location) \/ location.kind = "invalid"
                         THEN {{}}
                         ELSE LookupsFor(nextUrl, opts)
          IN  /\ isRedirectStatus(status)
              /\ \E firstLookup \in lookups, secondLookup \in lookups :
                    \E chk \in {checkRedirectTarget(nextUrl, opts, firstLookup, secondLookup)} :
                        IF redirectLimitReached(call.redirectsFollowed, opts.maxRedirects)
                        THEN /\ call' = Failed(call, "Redirect limit exceeded")
                             /\ net' = [net EXCEPT !.nResponses = @ + 1,
                                                  !.noLocationSeen = location.kind = "none"]
                        ELSE IF locationMissing(location)
                        THEN /\ call' = Failed(call,
                                               "Redirect response missing Location header")
                             /\ net' = [net EXCEPT !.nResponses = @ + 1,
                                                  !.noLocationSeen = location.kind = "none"]
                        ELSE IF location.kind = "invalid"
                        THEN /\ call' = Failed(call, "Invalid URL")
                             /\ net' = [net EXCEPT !.nResponses = @ + 1]
                        ELSE IF chk.err # NoError
                        THEN /\ call' = Failed(call, chk.err)
                             /\ net' = [net EXCEPT !.nResponses = @ + 1,
                                                  !.candidate = nextUrl,
                                                  !.noLocationSeen = location.kind = "none"]
                        ELSE /\ call' =
                                  [call EXCEPT
                                     !.pc = "hop",
                                     !.status = status,
                                     !.currentUrl = nextUrl,
                                     !.currentMethod = IF toGet THEN "GET" ELSE @,
                                     !.currentBody = IF toGet THEN FALSE ELSE @,
                                     !.baseHeaders =
                                         IF toGet
                                         THEN stripped \ {"content-length", "content-type"}
                                         ELSE stripped,
                                     !.redirectsFollowed = @ + 1]
                             /\ net' =
                                  [net EXCEPT
                                     !.nResponses = @ + 1,
                                     !.candidate = nextUrl,
                                     !.noLocationSeen = location.kind = "none",
                                     !.addrChecked =
                                         IF chk.checked # <<>> THEN chk.checked ELSE @,
                                     !.crossOrigin =
                                         Origin(call.currentUrl) # Origin(nextUrl)]
    /\ tmo' = finallyClear(tmo)
    /\ UNCHANGED <<opts, body>>
    /\ UNCHANGED <<bridgeVars, registryVars, discoveryVars, policyVars, invokeVars, loggerVars>>

\* fetch() rejects with a network error, which fetchWithTimeout rethrows
NetworkError ==
    /\ call.pc = "inflight"
    /\ call' = Failed(call, "fetch failed")
    /\ tmo' = finallyClear(tmo)
    /\ UNCHANGED <<opts, net, body>>
    /\ UNCHANGED <<bridgeVars, registryVars, discoveryVars, policyVars, invokeVars, loggerVars>>

\* timeoutMs have passed since the exchange began. The timer callback runs only
\* if the timer is still set; it aborts the controller, fetch() rejects with an
\* AbortError and the catch block runs before any other task.
TimeoutElapses ==
    /\ call.pc \in {"inflight", "done"}
    /\ opts.timeoutMs > 0
    /\ ~tmo.elapsed
    /\ IF tmo.timerArmed
       THEN /\ tmo' = finallyClear([tmo EXCEPT !.elapsed = TRUE, !.didTimeout = TRUE,
                                               !.controllerAborted = TRUE])
            /\ call' = Failed(call, abortErrorMessage(tmo.wasExternallyAborted, TRUE))
       ELSE /\ tmo' = [tmo EXCEPT !.elapsed = TRUE]
            /\ call' = call
    /\ UNCHANGED <<opts, net, body>>
    /\ UNCHANGED <<bridgeVars, registryVars, discoveryVars, policyVars, invokeVars, loggerVars>>

\* The caller aborts the signal it passed in requestInit
CallerAborts ==
    /\ call.pc \in {"hop", "inflight", "done"}
    /\ opts.hasSignal
    /\ ~tmo.outerAborted
    /\ IF call.pc = "inflight" /\ tmo.listenerAttached
       THEN \* onAbort, then the catch block
            /\ tmo' = finallyClear([tmo EXCEPT !.outerAborted = TRUE,
                                               !.wasExternallyAborted = TRUE,
                                               !.controllerAborted = TRUE])
            /\ call' = Failed(call, abortErrorMessage(TRUE, tmo.didTimeout))
            /\ body' = body
       ELSE IF call.pc = "inflight" /\ tmo.signal = "outer"
       THEN \* fetch() was given the caller's signal and rejects
            /\ tmo' = [tmo EXCEPT !.outerAborted = TRUE]
            /\ call' = Failed(call, "AbortError")
            /\ body' = body
       ELSE /\ tmo' = [tmo EXCEPT !.outerAborted = TRUE]
            /\ call' = call
            /\ body' = IF body.state = "open" /\ body.signal = "outer"
                       THEN [body EXCEPT !.state = "errored"]
                       ELSE body
    /\ UNCHANGED <<opts, net>>
    /\ UNCHANGED <<bridgeVars, registryVars, discoveryVars, policyVars, invokeVars, loggerVars>>

\* The upstream ends the body the caller is reading: the read resolves
BodyEnds ==
    /\ call.pc = "done"
    /\ body.state = "open"
    /\ body' = [body EXCEPT !.state = "closed"]
    /\ UNCHANGED <<opts, call, tmo, net>>
    /\ UNCHANGED <<bridgeVars, registryVars, discoveryVars, policyVars, invokeVars, loggerVars>>

\* ------------------------------------------- upstream tool bridges

MaxProgressEvents == 2

BridgeFunctions == {"callGradioToolWithHeaders", "callStreamableHttpTool"}

U_MCP == Url("https:", H_EXAMPLE, "", P_MCP)

U_MCP_HTTP == Url("http:", H_EXAMPLE, "", P_MCP)

\* The upstream URLs a forwarded call is made with
BridgeUrls == {U_MCP, U_MCP_HTTP, U_EXAMPLE}

\* PROXY_STREAMABLE_PROFILE.urlPolicy and createGradioMcpPolicy(): the policy
\* the upstream URL is validated against before anything else is done
bridgeUrlPolicy(fn, production) ==
    IF fn = "callGradioToolWithHeaders" THEN createGradioMcpPolicy(production)
    ELSE createHttpOrHttpsPolicy

\* The locals of a forwarded call. pc is where the call stands: before it is
\* made (idle), at its await of connect, of request, of close, or after it has
\* returned or thrown; outcome is what it returns or throws once close settles.
BridgeIdle ==
    [fn |-> "", pc |-> "idle", hasExtra |-> FALSE, hasProgressToken |-> FALSE,
     hasRelayFailureHook |-> FALSE, progressRelayDisabled |-> FALSE, isClosing |-> FALSE,
     outcome |-> "none"]

\* The upstream session: how many were opened, how many times close() was
\* called on it, the progress events it has sent, how request() settled
\* ("result", "errorResult" or "rejected") and how close() settled ("resolved"
\* or "rejected")
SessionNone == [opened |-> 0, closeCalls |-> 0, events |-> 0, answer |-> "none",
                closed |-> "none"]

\* The caller: whether extra.signal is aborted, the sendNotification calls
\* still pending, the notifications sent, the sendNotification calls that
\* rejected, the calls of onProgressRelayFailure
RelayIdle == [aborted |-> FALSE, pending |-> 0, sent |-> 0, rejected |-> 0, failures |-> 0]

\* requestOptions.onprogress is installed
relaysProgress(b) == b.hasProgressToken /\ b.hasExtra

\* sendProgressNotification without its test of progressRelayDisabled
sendProgressNotificationFlagIgnored(b, r) ==
    IF ~b.hasExtra THEN "skip"
    ELSE IF r.aborted THEN "disable"
    ELSE IF b.fn = "callStreamableHttpTool" /\ ~b.hasProgressToken THEN "skip"
    ELSE "send"

\* sendProgressNotification up to its await of extra.sendNotification: "skip"
\* (return), "disable" (the caller's signal is aborted) or "send"
sendProgressNotification(b, r) ==
    IF ~b.hasExtra \/ b.progressRelayDisabled THEN "skip"
    ELSE IF r.aborted THEN "disable"
    ELSE IF b.fn = "callStreamableHttpTool" /\ ~b.hasProgressToken THEN "skip"
    ELSE "send"

\* A catch block that throws the relay's error into the forwarded call
progressRelayCatchRethrown(b) ==
    [b EXCEPT !.progressRelayDisabled = TRUE, !.outcome = "thrown"]

\* The catch block of sendProgressNotification, on the locals of the call: the
\* error is swallowed and the relay disabled
progressRelayCatch(b) ==
    [b EXCEPT !.progressRelayDisabled = TRUE]

\* The locals of a forwarded call at its await of connect(), or after it threw
\* on its URL
bridgeCallStarted(fn, validated, hasExtra, hasProgressToken, hook) ==
    [BridgeIdle EXCEPT
       !.fn = fn,
       !.hasExtra = hasExtra,
       !.hasProgressToken = hasProgressToken,
       !.hasRelayFailureHook = hook,
       !.pc = IF validated = NoError THEN "connecting" ELSE "threw",
       !.outcome = IF validated = NoError THEN "none" ELSE "thrown"]

\* The call up to its await of connect(): the URL is validated, the client and
\* the transport are made, connect is called
BridgeCall ==
    /\ bridge.pc = "idle"
    /\ invoke.pc = "idle"
    /\ \E fn \in BridgeFunctions, mcpUrl \in BridgeUrls, production \in BOOLEAN,
          hasExtra \in BOOLEAN, hasProgressToken \in BOOLEAN, hook \in BOOLEAN :
          /\ hasProgressToken => hasExtra
          /\ hook => fn = "callGradioToolWithHeaders"
          /\ bridge' = bridgeCallStarted(
                           fn, parseAndValidateUrl(mcpUrl, bridgeUrlPolicy(fn, production)),
                           hasExtra, hasProgressToken, hook)
    /\ UNCHANGED <<session, relay>>
    /\ UNCHANGED <<fetchVars, registryVars, discoveryVars, policyVars, invokeVars, loggerVars>>

\* connect() resolves: the session is open and the call goes on into its try
\* block, up to its await of request()
ConnectResolves ==
    /\ bridge.pc = "connecting"
    /\ bridge' = [bridge EXCEPT !.pc = "requesting"]
    /\ session' = [session EXCEPT !.opened = @ + 1]
    /\ UNCHANGED relay
    /\ UNCHANGED <<fetchVars, registryVars, discoveryVars, policyVars, invokeVars, loggerVars>>

\* connect() rejects, before the transport was started or after it (the
\* handshake failed on the started transport): the await is outside the try
\* block, so the call throws without running its finally block
ConnectRejects ==
    /\ bridge.pc = "connecting"
    /\ \E started \in BOOLEAN :
          session' = [session EXCEPT !.opened = IF started THEN @ + 1 ELSE @]
    /\ bridge' = [bridge EXCEPT !.pc = "threw", !.outcome = "thrown"]
    /\ UNCHANGED relay
    /\ UNCHANGED <<fetchVars, registryVars, discoveryVars, policyVars, invokeVars, loggerVars>>

\* The upstream sends a progress event while the request is pending: onprogress,
\* if installed, calls sendProgressNotification
UpstreamProgress ==
    /\ bridge.pc = "requesting"
    /\ session.events < MaxProgressEvents
    /\ session' = [session EXCEPT !.events = @ + 1]
    /\ \E step \in {IF relaysProgress(bridge) THEN sendProgressNotification(bridge, relay)
                    ELSE "skip"} :
          /\ bridge' = [bridge EXCEPT !.progressRelayDisabled = @ \/ step = "disable"]
          /\ relay' = [relay EXCEPT !.pending = IF step = "send" THEN @ + 1 ELSE @]
    /\ UNCHANGED <<fetchVars, registryVars, discoveryVars, policyVars, invokeVars, loggerVars>>

\* extra.sendNotification resolves
RelayResolves ==
    /\ relay.pending > 0
    /\ relay' = [relay EXCEPT !.pending = @ - 1, !.sent = @ + 1]
    /\ UNCHANGED <<bridge, session>>
    /\ UNCHANGED <<fetchVars, registryVars, discoveryVars, policyVars, invokeVars, loggerVars>>

\* extra.sendNotification rejects: the catch block of sendProgressNotification
RelayRejects ==
    /\ relay.pending > 0
    /\ relay' = [relay EXCEPT !.pending = @ - 1,
                              !.rejected = @ + 1,
                              !.failures = IF bridge.hasRelayFailureHook THEN @ + 1 ELSE @]
    /\ bridge' = progressRelayCatch(bridge)
    /\ UNCHANGED session
    /\ UNCHANGED <<fetchVars, registryVars, discoveryVars, policyVars, invokeVars, loggerVars>>

\* The caller cancels: extra.signal is aborted. Neither connect() nor request()
\* is given the signal.
CallerCancels ==
    /\ bridge.pc \in {"connecting", "requesting"}
    /\ bridge.hasExtra
    /\ ~relay.aborted
    /\ relay' = [relay EXCEPT !.aborted = TRUE]
    /\ UNCHANGED <<bridge, session>>
    /\ UNCHANGED <<fetchVars, registryVars, discoveryVars, policyVars, invokeVars, loggerVars>>

\* request() resolves with the upstream's result, an error result or not: the
\* finally block calls close()
UpstreamResult ==
    /\ bridge.pc = "requesting"
    /\ \E isError \in BOOLEAN :
          /\ bridge' = [bridge EXCEPT
                       !.pc = "closing",
                       !.isClosing = (bridge.fn = "callGradioToolWithHeaders"),
                       !.outcome = IF isError THEN "errorResult" ELSE "result"]
          /\ session' = [session EXCEPT
                          !.closeCalls = @ + 1,
                          !.answer = IF isError THEN "errorResult" ELSE "result"]
    /\ UNCHANGED relay
    /\ UNCHANGED <<fetchVars, registryVars, discoveryVars, policyVars, invokeVars, loggerVars>>

\* request() rejects: the finally block calls close()
RequestRejects ==
    /\ bridge.pc = "requesting"
    /\ bridge' = [bridge EXCEPT !.pc = "closing",
                                !.isClosing = (bridge.fn = "callGradioToolWithHeaders"),
                                !.outcome = "thrown"]
    /\ session' = [session EXCEPT !.closeCalls = @ + 1, !.answer = "rejected"]
    /\ UNCHANGED relay
    /\ UNCHANGED <<fetchVars, registryVars, discoveryVars, policyVars, invokeVars, loggerVars>>

\* close() settles: the call returns its result or throws
CloseSettles ==
    /\ bridge.pc = "closing"
    /\ \E closed \in BOOLEAN :
          /\ bridge' = [bridge EXCEPT
                          !.pc = IF closed /\ bridge.outcome # "thrown" THEN "returned"
                                 ELSE "threw",
                          !.outcome = IF closed THEN @ ELSE "thrown"]
          /\ session' = [session EXCEPT
                           !.closed = IF closed THEN "resolved" ELSE "rejected"]
    /\ UNCHANGED relay
    /\ UNCHANGED <<fetchVars, registryVars, discoveryVars, policyVars, invokeVars, loggerVars>>

\* ------------------------------------------------------- invokeSpace

\* The endpoint invokeSpace calls on `${metadata.subdomain}.hf.space`
U_SPACE_MCP_SLASH == Url("https:", H_SPACE, "", P_MCP \o <<"/">>)

\* What invokeSpace returns: nothing yet, a formatted error text, or the
\* upstream's result with its isError
NoResult == [kind |-> "none", isError |-> FALSE]

ErrorText == [kind |-> "formatted", isError |-> TRUE]

\* invokeSpace: where it stands (idle, at its await of fetchSpaceMetadata, of
\* fetchGradioSchema, of callGradioToolWithHeaders, returned or threw),
\* whether an exception was raised inside it, what it returned, and what it
\* has done: how many of its steps have passed, in their order (the parameters
\* parsed as an object, the metadata fetched, the schema fetched, a tool
\* found, the schema simple, the parameters valid), the step that failed, the
\* HTTP requests fetchSpaceMetadata and fetchGradioSchema were called for
InvokeIdle ==
    [pc |-> "idle", raised |-> FALSE, result |-> NoResult, passed |-> 0, failed |-> "",
     requests |-> 0]

\* An exception raised inside invokeSpace that leaves it
invokeSpaceUncaught(inv) ==
    [inv EXCEPT !.pc = "threw", !.raised = TRUE]

\* The catch blocks of invokeSpace: the exception becomes a formatted error
invokeSpaceCatch(inv) ==
    [inv EXCEPT !.pc = "returned", !.raised = TRUE, !.result = ErrorText]

\* An early return of a formatted error
invokeSpaceReturnsError(inv) ==
    [inv EXCEPT !.pc = "returned", !.result = ErrorText]

\* The steps passed once the schema has arrived with the given outcome of
\* steps 3 to 5
stepsPassed(outcome) ==
    CASE outcome = "noTools" -> 3 [] outcome = "complex" -> 4 [] outcome = "invalid" -> 5
      [] OTHER -> 6

\* an invokeSpace that goes on to the call with parameters that failed
\* validateParameters
proceedsToCallDespiteInvalid(outcome) == outcome \in {"simple", "invalid"}

\* invokeSpace lines 44-75: none of the early returns of steps 3 to 5 is taken
proceedsToCall(outcome) == outcome = "simple"

\* invokeSpace up to its await of fetchSpaceMetadata: the parameters are parsed
InvokeSpace ==
    /\ invoke.pc = "idle"
    /\ bridge.pc = "idle"
    /\ \E parametersJson \in {"malformed", "array", "object"} :
          invoke' = IF parametersJson = "object"
                    THEN [invoke EXCEPT !.pc = "metadata", !.passed = 1, !.requests = 1]
                    ELSE [invokeSpaceCatch(invoke) EXCEPT !.failed = "parameters"]
    /\ UNCHANGED <<fetchVars, bridgeVars, registryVars, discoveryVars, policyVars, loggerVars>>

\* fetchSpaceMetadata settles: with the subdomain, or throwing (the request
\* failed, the response was not ok, the space has no subdomain)
FetchSpaceMetadataSettles ==
    /\ invoke.pc = "metadata"
    /\ \E outcome \in {"subdomain", "rejected", "notOk", "noSubdomain"} :
          invoke' = IF outcome = "subdomain"
                    THEN [invoke EXCEPT !.pc = "schema", !.passed = 2, !.requests = 2]
                    ELSE [invokeSpaceCatch(invoke) EXCEPT !.failed = "metadata"]
    /\ UNCHANGED <<fetchVars, bridgeVars, registryVars, discoveryVars, policyVars, loggerVars>>

\* fetchGradioSchema settles: throwing, or with tools; steps 4 to 7 then return
\* an error (no tool, a schema that is not simple, invalid parameters) or go
\* on to callGradioToolWithHeaders, up to its await of connect()
FetchGradioSchemaSettles ==
    /\ invoke.pc = "schema"
    /\ \E outcome \in {"rejected", "notOk", "noTools", "complex", "invalid", "simple"},
          production \in BOOLEAN, hasExtra \in BOOLEAN, hasProgressToken \in BOOLEAN :
          /\ hasProgressToken => hasExtra
          /\ (outcome # "simple") => (~production /\ ~hasExtra)
          /\ invoke' = IF outcome \in {"rejected", "notOk"}
                        THEN [invokeSpaceCatch(invoke) EXCEPT !.failed = "schema"]
                        ELSE IF proceedsToCall(outcome)
                        THEN [invoke EXCEPT !.pc = "calling",
                                            !.passed = stepsPassed(outcome),
                                            !.failed = IF outcome = "simple" THEN ""
                                                       ELSE outcome]
                        ELSE [invokeSpaceReturnsError(invoke) EXCEPT
                                 !.passed = stepsPassed(outcome), !.failed = outcome]
          /\ bridge' = IF proceedsToCall(outcome)
                        THEN bridgeCallStarted(
                                 "callGradioToolWithHeaders",
                                 parseAndValidateUrl(U_SPACE_MCP_SLASH,
                                                     createGradioMcpPolicy(production)),
                                 hasExtra, hasProgressToken, FALSE)
                        ELSE bridge
    /\ UNCHANGED <<session, relay>>
    /\ UNCHANGED <<fetchVars, registryVars, discoveryVars, policyVars, loggerVars>>

\* callGradioToolWithHeaders has returned or thrown: invokeSpace returns the
\* result, or its catch block the error
InvokeSpaceSettles ==
    /\ invoke.pc = "calling"
    /\ bridge.pc \in {"returned", "threw"}
    /\ invoke' = IF bridge.pc = "threw"
                  THEN [invokeSpaceCatch(invoke) EXCEPT
                           !.failed = IF @ = "" THEN "call" ELSE @]
                  ELSE [invoke EXCEPT
                          !.pc = "returned",
                          !.result = [kind |-> "result",
                                      isError |-> (bridge.outcome = "errorResult")]]
    /\ UNCHANGED <<fetchVars, bridgeVars, registryVars, discoveryVars, policyVars, loggerVars>>

\* ------------------------------------------------- HfDatasetLogger

\* The entries processLog is called with, numbered in the order of the calls
MaxLogEntries == 4

\* maxBufferSize, 10000 in the source, at the scale of the model
MaxBufferSize == 2

\* options.batchSize
BatchSizes == {1, 2, 3}

\* The fields logBuffer, batchSize, uploadInProgress and isShuttingDown, whether
\* the flush timer is set, and the local logsToUpload of the flush in flight;
\* with them what has happened so far: the entries accepted, the uploads in
\* flight, the entries of the uploads that succeeded, the entries shifted out
\* of a full buffer
LoggerIdle ==
    [logBuffer |-> <<>>, batchSize |-> 1, uploadInProgress |-> FALSE,
     isShuttingDown |-> FALSE, flushTimer |-> TRUE, logsToUpload |-> <<>>,
     accepted |-> 0, uploads |-> 0, uploaded |-> {}, evicted |-> {}]

\* flush() up to its await of uploadLogs (lines 402-417)
flush(l) ==
    IF l.uploadInProgress \/ Len(l.logBuffer) = 0 THEN l
    ELSE [l EXCEPT !.logsToUpload = l.logBuffer,
                   !.uploadInProgress = TRUE,
                   !.uploads = @ + 1]

\* processLog(logEntry): the oldest entry is shifted out of a full buffer, the
\* entry is pushed, and flush() is called when the batch is full
ProcessLog ==
    /\ logger.accepted < MaxLogEntries
    /\ LET full == Len(logger.logBuffer) >= MaxBufferSize
           entry == logger.accepted + 1
           pushed == [logger EXCEPT
                        !.logBuffer = Append(IF full THEN Tail(@) ELSE @, entry),
                        !.evicted = IF full THEN @ \cup {Head(logger.logBuffer)} ELSE @,
                        !.accepted = entry]
       IN  logger' = IF Len(pushed.logBuffer) >= pushed.batchSize THEN flush(pushed)
                     ELSE pushed
    /\ UNCHANGED <<fetchVars, bridgeVars, registryVars, discoveryVars, policyVars, invokeVars>>

\* The callback of the flush timer: flush() when the buffer is not empty
FlushTimerFires ==
    /\ logger.flushTimer
    /\ Len(logger.logBuffer) > 0
    /\ logger' = flush(logger)
    /\ UNCHANGED <<fetchVars, bridgeVars, registryVars, discoveryVars, policyVars, invokeVars>>

\* uploadLogs resolves: the buffer is emptied, then the finally block
UploadResolves ==
    /\ logger.uploads > 0
    /\ logger' = [logger EXCEPT
                    !.logBuffer = <<>>,
                    !.uploaded = @ \cup {logger.logsToUpload[i] :
                                           i \in 1..Len(logger.logsToUpload)},
                    !.uploadInProgress = FALSE,
                    !.uploads = @ - 1]
    /\ UNCHANGED <<fetchVars, bridgeVars, registryVars, discoveryVars, policyVars, invokeVars>>

\* uploadLogs rejects (the upload failed or timed out): the catch block leaves
\* the buffer alone, then the finally block
UploadRejects ==
    /\ logger.uploads > 0
    /\ logger' = [logger EXCEPT !.uploadInProgress = FALSE, !.uploads = @ - 1]
    /\ UNCHANGED <<fetchVars, bridgeVars, registryVars, discoveryVars, policyVars, invokeVars>>

\* destroy(): the timer is cleared and a last flush() is called
Destroy ==
    /\ ~logger.isShuttingDown
    /\ logger' = flush([logger EXCEPT !.isShuttingDown = TRUE, !.flushTimer = FALSE])
    /\ UNCHANGED <<fetchVars, bridgeVars, registryVars, discoveryVars, policyVars, invokeVars>>

\* -------------------------------------------- proxy-tools-config.ts

MaxCallers == 3

MaxSources == 2

Callers == 1..MaxCallers

\* process.env.PROXY_TOOLS_CSV: unset, an https URL or a file path
SourceKinds == {"", "https", "file"}

\* let cachedTools = null
NoTools == [set |-> FALSE, tools |-> <<>>]

\* The module's variables cachedTools, cachedConfigPromise and cachedToolsByName
\* (a map as the set of its key-value pairs), the value the promise settled
\* with, where the computation stands (none, reading the source, loading the
\* schemas, done), and what it has done so far: the reads of the configuration
\* source, the fan-outs over the parsed sources, the assignments to the cache
RegistryIdle ==
    [source |-> "", cachedTools |-> NoTools, cachedConfigPromise |-> "null",
     cachedToolsByName |-> {}, settled |-> <<>>, stage |-> "none",
     parsedSources |-> 0, sourceReads |-> 0, fanOuts |-> 0, cacheWrites |-> 0]

CallersIdle == [c \in Callers |-> [state |-> "idle", result |-> <<>>]]

\* a loadProxyToolsConfig without the check of the promise in flight (lines 64-66)
loadDecisionIgnoringPromise(r) == IF r.cachedTools.set THEN "cached" ELSE "compute"

\* loadProxyToolsConfig lines 61-66: return the cached list, return the promise
\* of the computation in flight, or start the computation
loadDecision(r) ==
    IF r.cachedTools.set THEN "cached"
    ELSE IF r.cachedConfigPromise # "null" THEN "promise"
    ELSE "compute"

\* entry.toolName: a definition of this part of the model is known by the
\* number of its source, and that number stands for its outward name too
entryToolName(entry) == entry

\* new Map(toolDefinitions.map((entry) => [entry.toolName, entry])): of the
\* entries with one name the last one stays
newMapByName(tools) ==
    {[key |-> entryToolName(tools[i]), value |-> tools[i]] :
        i \in {k \in DOMAIN tools :
                  \A j \in DOMAIN tools :
                      entryToolName(tools[j]) = entryToolName(tools[k]) => j <= k}}

\* an assignment of cachedTools that leaves cachedToolsByName as it was
settleWithoutMap(r, tools) ==
    [r EXCEPT !.cachedTools = [set |-> TRUE, tools |-> tools],
              !.cachedConfigPromise = "resolved",
              !.settled = tools,
              !.stage = "done",
              !.cacheWrites = @ + 1]

\* cachedTools = tools; cachedToolsByName = new Map(...); the promise resolves
\* with the tools. Nothing runs between the two assignments.
settleWith(r, tools) ==
    [r EXCEPT !.cachedTools = [set |-> TRUE, tools |-> tools],
              !.cachedToolsByName = newMapByName(tools),
              !.cachedConfigPromise = "resolved",
              !.settled = tools,
              !.stage = "done",
              !.cacheWrites = @ + 1]

\* getProxyToolsConfig(): cachedTools ?? []
getProxyToolsConfig(r) == IF r.cachedTools.set THEN r.cachedTools.tools ELSE <<>>

\* getProxyToolDefinition(toolName): cachedToolsByName.get(toolName), the set of
\* what it returns (empty for undefined)
getProxyToolDefinition(r, toolName) ==
    {pair.value : pair \in {q \in r.cachedToolsByName : q.key = toolName}}

\* results.flatMap((result) => result.tools): the tools of the sources whose
\* schemas were loaded, in the order of the sources
flatMapTools(loaded, n) ==
    LET upTo[i \in 0..n] ==
            IF i = 0 THEN <<>>
            ELSE IF i \in loaded THEN Append(upTo[i - 1], i) ELSE upTo[i - 1]
    IN  upTo[n]

\* ------------------------------ proxy-tools-config.ts: schema discovery

MaxProxySources == 3

\* Proxy ids and upstream tool names; both are free text in which "_" may occur
ProxyIds == {<<"a">>, <<"a","_","b">>, <<"m">>}

ToolNames == {<<"c">>, <<"b","_","c">>}

\* A row of the CSV: its proxy id, and whether its URL and response type pass
\* the checks of parseProxyToolsCsv
CsvRows == [proxyId : ProxyIds, valid : BOOLEAN]

CsvInputs == UNION {[1..n -> CsvRows] : n \in 0..MaxProxySources}

\* parseProxyToolsCsv: the rows that pass the checks, the first of each proxy id
parseProxyToolsCsv(rows) ==
    LET accepted(i) ==
            /\ rows[i].valid
            /\ ~\E j \in 1..(i - 1) : rows[j].valid /\ rows[j].proxyId = rows[i].proxyId
        kept == SelectSeq([i \in 1..Len(rows) |-> i], accepted)
    IN  [k \in 1..Len(kept) |-> rows[kept[k]].proxyId]

\* A tool as tools/list names it: its name and the type of its inputSchema
Tool(name, schemaType) == [name |-> name, schemaType |-> schemaType]

\* What the listTools of a source may answer
Listings ==
    {<<>>,
     <<Tool(<<"c">>, "object")>>,
     <<Tool(<<"b","_","c">>, "object")>>,
     <<Tool(<<"c">>, "object"), Tool(<<"b","_","c">>, "object")>>,
     <<Tool(<<"c">>, "object"), Tool(<<"b","_","c">>, "missing")>>}

\* buildProxyToolDefinition: the definition, or <<>> (null) for a tool without
\* an object schema
buildProxyToolDefinition(proxyId, tool, shouldPrefix) ==
    IF tool.schemaType # "object" THEN <<>>
    ELSE <<[proxyId |-> proxyId,
            toolName |-> IF shouldPrefix THEN proxyId \o <<"_">> \o tool.name ELSE tool.name,
            upstreamToolName |-> tool.name]>>

RECURSIVE FlatMap(_)
FlatMap(seqs) == IF seqs = <<>> THEN <<>> ELSE Head(seqs) \o FlatMap(Tail(seqs))

\* fetchProxyToolSchemas: the definitions of the tools listed, none when
\* connect or listTools threw (the catch returns [])
fetchProxyToolSchemas(proxyId, shouldPrefix, threw, listing) ==
    IF threw THEN <<>>
    ELSE FlatMap([k \in 1..Len(listing) |->
                    buildProxyToolDefinition(proxyId, listing[k], shouldPrefix)])

TaskOutcomes == {"listed", "threw", "timeout"}

\* a schema task whose timeout is not caught: the task rejects
schemaTaskUncaught(proxyId, shouldPrefix, outcome, listing) ==
    [rejected |-> outcome = "timeout",
     tools |-> fetchProxyToolSchemas(proxyId, shouldPrefix, outcome # "listed", listing)]

\* One element of schemaTasks (lines 128-135): the race of fetchProxyToolSchemas
\* with the timeout, whose rejection the catch turns into no tools
schemaTask(proxyId, shouldPrefix, outcome, listing) ==
    [rejected |-> FALSE,
     tools |-> IF outcome = "timeout" THEN <<>>
               ELSE fetchProxyToolSchemas(proxyId, shouldPrefix, outcome = "threw", listing)]

\* The fetch option a function gives the transport it makes: the bridges wrap
\* fetchWithProfile, fetchProxyToolSchemas gives none, which leaves the
\* transport with the platform's fetch and the platform's following of
\* redirects
transportFetch(fn) ==
    IF fn \in {"callGradioToolWithHeaders", "callStreamableHttpTool"}
    THEN "fetchWithProfile"
    ELSE "platform"

\* A schema task: via is what sent the requests of its session once a listing
\* has arrived ("none" before, and for a task that failed)
TaskPending == [state |-> "pending", outcome |-> "", listing |-> <<>>,
                rejected |-> FALSE, tools |-> <<>>, via |-> "none"]

\* loadProxyToolSchemas has not been called: the CSV content is still to be parsed
DiscoveryIdle == [stage |-> "idle", rows |-> <<>>, sources |-> <<>>, tasks |-> <<>>,
                  result |-> <<>>]

\* No policy function has been applied
ProbeIdle == [fn |-> "", input |-> <<>>, result |-> ""]

\* The CSV content is parsed and loadProxyToolSchemas starts one task per source
LoadProxyToolSchemas ==
    /\ discovery.stage = "idle"
    /\ \E sources \in {parseProxyToolsCsv(discovery.rows)} :
          discovery' =
              IF Len(sources) = 0
              THEN [discovery EXCEPT !.stage = "done"]
              ELSE [discovery EXCEPT !.stage = "loading",
                                     !.sources = sources,
                                     !.tasks = [k \in 1..Len(sources) |-> TaskPending]]
    /\ UNCHANGED <<fetchVars, bridgeVars, registryVars, policyVars, invokeVars, loggerVars>>

\* One schema task settles: the listing arrived, the fetch threw, or the
\* timeout won the race
SchemaTaskSettles ==
    /\ discovery.stage = "loading"
    /\ \E k \in 1..Len(discovery.tasks), outcome \in TaskOutcomes, listing \in Listings :
          /\ discovery.tasks[k].state = "pending"
          /\ outcome # "listed" => listing = <<>>
          /\ \E settled \in {schemaTask(discovery.sources[k], Len(discovery.sources) > 1,
                                        outcome, listing)} :
                discovery' = [discovery EXCEPT
                                 !.tasks[k] = [state |-> "settled", outcome |-> outcome,
                                               listing |-> listing,
                                               rejected |-> settled.rejected,
                                               tools |-> settled.tools,
                                               via |-> IF outcome = "listed"
                                                       THEN transportFetch("fetchProxyToolSchemas")
                                                       ELSE "none"]]
    /\ UNCHANGED <<fetchVars, bridgeVars, registryVars, policyVars, invokeVars, loggerVars>>

\* Promise.all(schemaTasks) settles, and the results are flattened in the order
\* of the sources
SchemasFlattened ==
    /\ discovery.stage = "loading"
    /\ \A k \in 1..Len(discovery.tasks) : discovery.tasks[k].state = "settled"
    /\ discovery' =
          IF \E k \in 1..Len(discovery.tasks) : discovery.tasks[k].rejected
          THEN [discovery EXCEPT !.stage = "failed"]
          ELSE [discovery EXCEPT
                   !.stage = "done",
                   !.result = FlatMap([k \in 1..Len(discovery.tasks) |->
                                          discovery.tasks[k].tools])]
    /\ UNCHANGED <<fetchVars, bridgeVars, registryVars, policyVars, invokeVars, loggerVars>>

\* The process starts with some CSV content configured
DiscoveryInit ==
    /\ opts = NoOpts
    /\ call = CallIdle
    /\ tmo = TmoIdle
    /\ net = NetIdle
    /\ body = BodyNone
    /\ bridge = BridgeIdle
    /\ session = SessionNone
    /\ relay = RelayIdle
    /\ registry = RegistryIdle
    /\ callers = CallersIdle
    /\ discovery \in {[DiscoveryIdle EXCEPT !.rows = rows] : rows \in CsvInputs}
    /\ probe = ProbeIdle
    /\ invoke = InvokeIdle
    /\ logger = LoggerIdle

\* ------------------------------------- ip-policy applied to inputs

\* Octets of the IPv4 addresses classified: the bounds of the ranges of the
\* table, their neighbours, and values away from every bound
FirstOctets == {0, 1, 8, 9, 10, 11, 99, 100, 101, 126, 127, 128, 169, 172, 173,
                191, 192, 193, 198, 199, 203, 204, 223, 224, 239, 240, 255}

SecondOctets == {0, 1, 15, 16, 17, 18, 19, 20, 31, 32, 50, 51, 52, 63, 64, 87, 88, 89,
                 127, 128, 167, 168, 169, 253, 254, 255}

ThirdOctets == {0, 1, 2, 3, 98, 99, 100, 101, 112, 113, 114, 255}

FourthOctets == {0, 1, 255}

\* The text of an IPv4 address
Dotted(o) ==
    DecText(o[1]) \o <<".">> \o DecText(o[2]) \o <<".">> \o DecText(o[3]) \o <<".">>
        \o DecText(o[4])

\* Groups of the IPv6 addresses classified
FirstGroups == {0, 1, 8192, 8193, 8194, 64511, 64512, 65023, 65024, 65151, 65152,
                65215, 65216, 65279, 65280, 65535}

SecondGroups == {0, 15, 16, 31, 32, 3511, 3512, 3513}

LastGroups == {0, 1, 2}

\* The text of an IPv6 address whose groups 3 to 7 are zero, in full or with "::"
Ipv6Text(g, compressed) ==
    IF compressed
    THEN HexText(g[1]) \o <<":">> \o HexText(g[2]) \o <<":",":">> \o HexText(g[8])
    ELSE HexText(g[1]) \o <<":">> \o HexText(g[2]) \o <<":","0",":","0",":","0",":","0",":","0",":">>
            \o HexText(g[8])

\* Addresses of ip-policy.test.ts and of the documentation, with their groups
KnownIpv6 ==
    {[text |-> <<":",":">>, groups |-> <<0,0,0,0,0,0,0,0>>],
     [text |-> <<":",":","1">>, groups |-> <<0,0,0,0,0,0,0,1>>],
     [text |-> <<"[",":",":","1","]">>, groups |-> <<0,0,0,0,0,0,0,1>>],
     [text |-> <<"f","c","0","0",":",":","1">>, groups |-> <<64512,0,0,0,0,0,0,1>>],
     [text |-> <<"f","e","8","0",":",":","1","%","e","t","h","0">>,
      groups |-> <<65152,0,0,0,0,0,0,1>>],
     [text |-> <<"2","6","0","7",":","f","8","b","0",":","4","0","0","5",":","8","0","a",
                 ":",":","2","0","0","e">>,
      groups |-> <<9735,63664,16389,2058,0,0,0,8206>>],
     [text |-> <<"2","6","0","6",":","4","7","0","0",":","4","7","0","0",":",":",
                 "1","1","1","1">>,
      groups |-> <<9734,18176,18176,0,0,0,0,4369>>]}

AddressInputs ==
    {[kind |-> "v4", text |-> Dotted(<<a, b, c, d>>), groups |-> <<a, b, c, d>>] :
        a \in FirstOctets, b \in SecondOctets, c \in ThirdOctets, d \in FourthOctets}
    \cup
    {[kind |-> "v6", text |-> Ipv6Text(<<g1, g2, 0, 0, 0, 0, 0, g8>>, compressed),
      groups |-> <<g1, g2, 0, 0, 0, 0, 0, g8>>] :
        g1 \in FirstGroups, g2 \in SecondGroups, g8 \in LastGroups, compressed \in BOOLEAN}
    \cup
    {[kind |-> "v6", text |-> known.text, groups |-> known.groups] : known \in KnownIpv6}

\* The IPv4-mapped IPv6 texts of an IPv4 address: dotted and hexadecimal, plain
\* and bracketed
MappedTexts(o) ==
    LET dotted == <<":",":","f","f","f","f",":">> \o Dotted(o)
        hex == <<":",":","f","f","f","f",":">> \o HexText(o[1] * 256 + o[2]) \o <<":">>
                  \o HexText(o[3] * 256 + o[4])
    IN  <<dotted, hex, <<"[">> \o dotted \o <<"]">>, <<"[">> \o hex \o <<"]">>>>

H_HFCO_UPPER_DOT == <<"H","F",".","c","o",".">>

H_SUB_HFCO == <<"s","u","b",".","h","f",".","c","o">>

H_BAD_HFCO == <<"b","a","d","h","f",".","c","o">>

A_LINK_LOCAL == <<"f","e","8","0",":",":","1">>

\* Host names assertExternalAddress is applied to: literals and names
GuardHosts ==
    {A_PUBLIC, A_PRIVATE, <<"[",":",":","1","]">>,
     <<"[","2","6","0","6",":","4","7","0","0",":",":","1","1","1","1","]">>,
     H_HFCO, H_HFCO_UPPER_DOT, H_SUB_HFCO, H_BAD_HFCO, H_EXAMPLE}

\* Values of ALLOW_INTERNAL_ADDRESS_HOSTS
AllowlistEnvs ==
    {<<>>,
     <<"h","f",".","c","o">>,
     <<"*",".","h","f",".","c","o">>,
     <<" ","H","F",".","c","o","."," ",",",",","*",".","c","o">>,
     <<"*",".">>}

GuardAddresses == {A_PUBLIC, A_PRIVATE, A_LINK_LOCAL}

GuardInputs ==
    [kind : {"guard"}, hostname : GuardHosts, env : AllowlistEnvs,
     firstLookup : SUBSET GuardAddresses, secondLookup : SUBSET GuardAddresses]

\* The calls of lookupAll assertExternalAddress makes (lines 224-251): none for
\* a literal, one when the first answer already throws, else two
lookupsOfAssertExternalAddress(hostname, allowlist, firstLookup) ==
    LET normalized == ipNormalizeHostname(hostname)
    IN  IF normalized = <<>> \/ detectIpVersion(normalizeIpLiteral(normalized)) # 0 THEN 0
        ELSE IF assertExternalAddress(hostname, allowlist, firstLookup, {}) # NoError THEN 1
        ELSE 2

\* isIpInternalOrReserved(address)
ClassifyAddress ==
    /\ probe.fn = ""
    /\ probe.input.kind \in {"v4", "v6"}
    /\ probe' = [probe EXCEPT !.fn = "isIpInternalOrReserved",
                              !.result = isIpInternalOrReserved(probe.input.text)]
    /\ UNCHANGED <<fetchVars, bridgeVars, registryVars, discoveryVars, invokeVars, loggerVars>>

\* isIpInternalOrReserved on an IPv4 address and on its IPv4-mapped IPv6 forms
ClassifyMappedAddress ==
    /\ probe.fn = ""
    /\ probe.input.kind = "v4"
    /\ \E mapped \in {MappedTexts(probe.input.groups)} :
          probe' = [probe EXCEPT
                       !.fn = "isIpInternalOrReserved(mapped)",
                       !.result = [plain |-> isIpInternalOrReserved(probe.input.text),
                                   mapped |-> [i \in 1..Len(mapped) |->
                                                  isIpInternalOrReserved(mapped[i])]]]
    /\ UNCHANGED <<fetchVars, bridgeVars, registryVars, discoveryVars, invokeVars, loggerVars>>

\* assertExternalAddress(hostname), with the answers its lookups get
AssertExternalAddress ==
    /\ probe.fn = ""
    /\ probe.input.kind = "guard"
    /\ \E allowlist \in {getInternalAddressHostAllowlist(probe.input.env)} :
          probe' = [probe EXCEPT
                       !.fn = "assertExternalAddress",
                       !.result =
                           [verdict |-> assertExternalAddress(probe.input.hostname, allowlist,
                                                              probe.input.firstLookup,
                                                              probe.input.secondLookup),
                            lookups |-> lookupsOfAssertExternalAddress(
                                            probe.input.hostname, allowlist,
                                            probe.input.firstLookup)]]
    /\ UNCHANGED <<fetchVars, bridgeVars, registryVars, discoveryVars, invokeVars, loggerVars>>

\* An address or a host name is about to be checked
AddressInit ==
    /\ opts = NoOpts
    /\ call = CallIdle
    /\ tmo = TmoIdle
    /\ net = NetIdle
    /\ body = BodyNone
    /\ bridge = BridgeIdle
    /\ session = SessionNone
    /\ relay = RelayIdle
    /\ registry = RegistryIdle
    /\ callers = CallersIdle
    /\ discovery = DiscoveryIdle
    /\ probe \in {[ProbeIdle EXCEPT !.input = input] : input \in AddressInputs \cup GuardInputs}
    /\ invoke = InvokeIdle
    /\ logger = LoggerIdle

\* ------------------------------------ url-policy applied to inputs

\* Parsed paths the policies are applied to, each with whether it, or what one
\* or two further percent-decodings make of it, holds a "." or ".." segment or
\* an encoded separator. (The URL parser has already resolved plain and
\* %2e-encoded dot segments and turned "\" into "/".)
ProbePaths ==
    {[text |-> <<"/","d","o","c","s","/","x">>,
      unsafe |-> FALSE],
     [text |-> <<"/","d","o","c","s">>,
      unsafe |-> FALSE],
     [text |-> <<"/","d","o","c","s","/">>,
      unsafe |-> FALSE],
     [text |-> <<"/","d","o","c","s","x">>,
      unsafe |-> FALSE],
     [text |-> <<"/","s","e","c","r","e","t">>,
      unsafe |-> FALSE],
     [text |-> <<"/">>,
      unsafe |-> FALSE],
     [text |-> <<"/","d","o","c","s","/","a","%","2","0","b">>,
      unsafe |-> FALSE],
     [text |-> <<"/","d","o","c","s","/","%","2","e","%","2","e","%","2","f","x">>,
      unsafe |-> TRUE],
     [text |-> <<"/","d","o","c","s","/",".",".","%","2","f","x">>,
      unsafe |-> TRUE],
     [text |-> <<"/","d","o","c","s","/","%","2","e","%","2","e","%","5","c","x">>,
      unsafe |-> TRUE],
     [text |-> <<"/","d","o","c","s","/",".",".","%","5","C","x">>,
      unsafe |-> TRUE],
     [text |-> <<"/","d","o","c","s","/","%","2","F","x">>,
      unsafe |-> TRUE],
     [text |-> <<"/","d","o","c","s","/","%","2","5","2","e","%","2","5","2","e","/","x">>,
      unsafe |-> TRUE],
     [text |-> <<"/","d","o","c","s","/","%","2","5","2","e","%","2","5","2","e","%","2","5","2","f","x">>,
      unsafe |-> TRUE],
     [text |-> <<"/","d","o","c","s","/","%","2","5","2","f","x">>,
      unsafe |-> TRUE],
     [text |-> <<"/","d","o","c","s","/","%","2","5","2","e","/","x">>,
      unsafe |-> TRUE],
     [text |-> <<"/","d","o","c","s","/","%","2","5","%","3","2","%","6","5","%","2","5","%","3","2","%","6","5","/","x">>,
      unsafe |-> TRUE],
     [text |-> <<"/","d","o","c","s","/","a","%","2","5","2","0","b">>,
      unsafe |-> FALSE],
     [text |-> <<"/","d","o","c","s","/","%","2","5","2","5","2","e","%","2","5","2","5","2","e","/","x">>,
      unsafe |-> FALSE],
     [text |-> <<"/","d","o","c","s","/","%","z","z">>,
      unsafe |-> FALSE],
     [text |-> <<"/","g","r","a","d","i","o","_","a","p","i","/","m","c","p">>,
      unsafe |-> FALSE],
     [text |-> <<"/","g","r","a","d","i","o","_","a","p","i","/","m","c","p","/","s","s","e">>,
      unsafe |-> FALSE],
     [text |-> P_MCP \o <<"x">>,
      unsafe |-> FALSE],
     [text |-> P_SCHEMA \o <<"s">>,
      unsafe |-> FALSE],
     [text |-> P_SCHEMA \o <<"/","v","1">>,
      unsafe |-> FALSE],
     [text |-> <<"/","g","r","a","d","i","o","_","a","p","i","/","m","c","p","/","%","2","5","2","e","%","2","5","2","e","/","x">>,
      unsafe |-> TRUE],
     [text |-> <<"/","g","r","a","d","i","o","_","a","p","i","/","m","c","p","/",".",".","%","2","f","s","e","c","r","e","t">>,
      unsafe |-> TRUE],
     [text |-> <<"/","d","o","c","s","%","2","f",".",".","%","2","f","s","e","c","r","e","t">>,
      unsafe |-> TRUE]}

H_HF_DOT == H_HF \o <<".">>

H_XHF == <<"x">> \o H_HF

\* Hosts of the URLs given to the docs policy
DocsHosts == {H_HF, H_WWWHF, H_GRADIO, H_WWWGRADIO, H_HFCO, H_EXAMPLE, H_HF_DOT, H_XHF}

\* Hosts of the URLs given to policies with a host rule
RuleHosts == {H_HFCO, H_HFCO_UPPER_DOT, H_SUB_HFCO, H_BAD_HFCO, H_EXAMPLE}

\* The policies of url-policy.ts every path is given to
NamedPolicies ==
    {createHfDocsPolicy, createExternalHttpsPolicy, createHttpOrHttpsPolicy,
     createGradioMcpPolicy(TRUE), createGradioMcpPolicy(FALSE),
     createGradioMcpHostPolicy(H_HF, "https:"),
     createHostPrefixPolicy(H_HF, P_SCHEMA, "https:")}

\* Policies with and without a host rule: allowedHosts unset or a set of exact
\* hosts, allowSubdomainsOf a list of domains
HostRulePolicies ==
    {[BasePolicy EXCEPT !.hasAllowedHosts = has,
                        !.allowedHosts = IF has THEN hosts ELSE {},
                        !.allowSubdomainsOf = domains] :
        has \in BOOLEAN,
        hosts \in SUBSET {<<"H","F",".","C","O">>, H_SUB_HFCO},
        domains \in SUBSET {<<"h","f",".","c","o",".">>, H_EXAMPLE}}

\* A policy with every rule of the UrlPolicy interface set: one exact host, the
\* default port, a list of query keys and the validator of the docs policy
EveryRulePolicy ==
    [BasePolicy EXCEPT !.hasAllowedHosts = TRUE,
                       !.allowedHosts = {H_HF},
                       !.requireDefaultPort = TRUE,
                       !.queryRules = "allowKeys",
                       !.allowKeys = {"page"},
                       !.customValidator = "hfDocs"]

\* URLs that fail any subset of the checks of EveryRulePolicy
EveryRuleInputs ==
    {[kind |-> "url",
      url |-> [Url(protocol, hostname, port, path.text) EXCEPT !.creds = creds,
                                                               !.query = query],
      unsafe |-> path.unsafe,
      policy |-> EveryRulePolicy] :
        protocol \in {"https:", "http:"}, creds \in BOOLEAN, hostname \in {H_HF, H_EXAMPLE},
        port \in {"", "8443"}, query \in {{}, {"page"}, {"token"}},
        path \in {path \in ProbePaths :
                    path.text \in {<<"/","d","o","c","s","/","x">>, P_SECRET,
                                   <<"/","d","o","c","s","/",".",".","%","2","f","x">>,
                                   <<"/","d","o","c","s","%","2","f",".",".","%","2","f","s","e","c","r","e","t">>}}}

UrlInputs ==
    EveryRuleInputs
    \cup
    {[kind |-> "url",
      url |-> [Url(protocol, hostname, port, path.text) EXCEPT !.creds = creds],
      unsafe |-> path.unsafe,
      policy |-> createHfDocsPolicy] :
        protocol \in {"https:", "http:"}, creds \in BOOLEAN, hostname \in DocsHosts,
        port \in {"", "8443"}, path \in ProbePaths}
    \cup
    {[kind |-> "url", url |-> Url("https:", hostname, "", path.text),
      unsafe |-> path.unsafe, policy |-> policy] :
        hostname \in {H_HF, H_EXAMPLE}, path \in ProbePaths, policy \in NamedPolicies}
    \cup
    {[kind |-> "url", url |-> Url("https:", hostname, "", P_DOCS_START),
      unsafe |-> FALSE, policy |-> policy] :
        hostname \in RuleHosts, policy \in HostRulePolicies}

\* parseAndValidateUrl(url, policy)
ParseAndValidateUrl ==
    /\ probe.fn = ""
    /\ probe.input.kind = "url"
    /\ probe' = [probe EXCEPT !.fn = "parseAndValidateUrl",
                              !.result = parseAndValidateUrl(probe.input.url,
                                                             probe.input.policy)]
    /\ UNCHANGED <<fetchVars, bridgeVars, registryVars, discoveryVars, invokeVars, loggerVars>>

\* A URL is about to be validated
UrlPolicyInit ==
    /\ opts = NoOpts
    /\ call = CallIdle
    /\ tmo = TmoIdle
    /\ net = NetIdle
    /\ body = BodyNone
    /\ bridge = BridgeIdle
    /\ session = SessionNone
    /\ relay = RelayIdle
    /\ registry = RegistryIdle
    /\ callers = CallersIdle
    /\ discovery = DiscoveryIdle
    /\ probe \in {[ProbeIdle EXCEPT !.input = input] : input \in UrlInputs}
    /\ invoke = InvokeIdle
    /\ logger = LoggerIdle

\* ------------------------------------- replica URLs in a tool result

TXT_HTTPS == <<"h","t","t","p","s",":","/","/">>

TXT_HTTP == <<"h","t","t","p",":","/","/">>

TXT_GRADIO_API == <<"/","g","r","a","d","i","o","_","a","p","i">>

TXT_REPLICAS == <<"/","-","-","r","e","p","l","i","c","a","s","/">>

\* s has the text p at index i
AtOffset(s, i, p) == i + Len(p) - 1 <= Len(s) /\ SubSeq(s, i, i + Len(p) - 1) = p

\* extractReplicaId: the part after the last '-' of the header value, <<>> for
\* null (no value, no '-', or nothing but blanks after the last '-')
extractReplicaId(headerValue) ==
    IF headerValue = <<>> THEN <<>>
    ELSE LET parts == Split(headerValue, "-")
         IN  IF Len(parts) < 2 THEN <<>>
             ELSE IF Trim(parts[Len(parts)]) = <<>> THEN <<>>
             ELSE parts[Len(parts)]

\* [^\s"'] and \S on the characters of the model's texts
HostChar(c) == c \notin {" ", "\"", "'"}

NonSpace(c) == c # " "

\* The indices at which /gradio_api can follow a host that starts at index h:
\* one character of host at least, and none of the host's characters is a
\* blank or a quote
ApiStarts(s, h) ==
    {k \in (h + 1)..Len(s) :
        /\ AtOffset(s, k, TXT_GRADIO_API)
        /\ \A x \in h..(k - 1) : HostChar(s[x])}

Max(S) == CHOOSE m \in S : \A x \in S : x <= m

\* The last index of the run of non-blank characters that starts at index i
\* (i - 1 when there is none)
RECURSIVE RunEnd(_, _)
RunEnd(s, i) ==
    IF i <= Len(s) /\ NonSpace(s[i]) THEN RunEnd(s, i + 1) ELSE i - 1

\* text.replace(urlPattern, ...) with urlPattern =
\* /https:\/\/([^\s"']+)\/gradio_api(\S*)?/g, scanning from index i: the
\* leftmost match, its host as long as it can be, its rest up to the next
\* blank, and the scan goes on after the match
RECURSIVE rewriteTextFrom(_, _, _)
rewriteTextFrom(s, i, replicaId) ==
    IF i > Len(s) THEN <<>>
    ELSE IF AtOffset(s, i, TXT_HTTPS) /\ ApiStarts(s, i + Len(TXT_HTTPS)) # {}
    THEN LET h == i + Len(TXT_HTTPS)
             k == Max(ApiStarts(s, h))
             r == k + Len(TXT_GRADIO_API)
             e == RunEnd(s, r)
         IN  TXT_HTTPS \o SubSeq(s, h, k - 1) \o TXT_REPLICAS \o replicaId
                 \o TXT_GRADIO_API \o SubSeq(s, r, e) \o rewriteTextFrom(s, e + 1, replicaId)
    ELSE <<s[i]>> \o rewriteTextFrom(s, i + 1, replicaId)

rewriteText(text, replicaId) == rewriteTextFrom(text, 1, replicaId)

\* A content item of a CallToolResult: a text item carries a text, the other
\* types (image, audio, resource) carry none
TextItem(text) == [type |-> "text", hasText |-> TRUE, text |-> text]

ImageItem == [type |-> "image", hasText |-> FALSE, text |-> <<>>]

\* rewriteReplicaUrlsInResult: the result itself unless a replica id was
\* extracted and NO_REPLICA_REWRITE is unset; else the texts of its items
\* rewritten
rewriteReplicaUrlsInResult(result, proxiedReplicaHeader, noReplicaRewrite) ==
    IF noReplicaRewrite \/ extractReplicaId(proxiedReplicaHeader) = <<>> THEN result
    ELSE [result EXCEPT !.content =
              [n \in 1..Len(result.content) |->
                  IF result.content[n].hasText
                  THEN [result.content[n] EXCEPT
                          !.text = rewriteText(@, extractReplicaId(proxiedReplicaHeader))]
                  ELSE result.content[n]]]

\* handleHeaders over the responses of one call, in order: capturedHeaders
\* ['x-proxied-replica'] is the last value that was not empty, <<>> if none
RECURSIVE handleHeaders(_)
handleHeaders(responses) ==
    IF responses = <<>> THEN <<>>
    ELSE IF responses[Len(responses)] # <<>> THEN responses[Len(responses)]
    ELSE handleHeaders(SubSeq(responses, 1, Len(responses) - 1))

\* The upstream hosts and the values of x-proxied-replica the model draws from
H_OTHER_SPACE == <<"b",".","h","f",".","s","p","a","c","e">>

ReplicaHeaders ==
    {<<>>,
     <<"o","y","e","-","d","s","p","r","4">>,
     <<"a","-","b","-","r","1">>,
     <<"d","s","p","r","4">>,
     <<"o","y","e","-">>,
     <<"o","y","e","-"," ">>}

\* The x-proxied-replica values of the responses of one call, <<>> for a
\* response without the header
ResponseHeaders ==
    {<<h>> : h \in ReplicaHeaders}
        \cup {<<h, <<>>>> : h \in ReplicaHeaders \ {<<>>}}
        \cup {<<<<"a","-","r","1">>, <<"a","-","r","2">>>>}

P_FILE_ARG == <<"/","f","i","l","e","=","x">>

\* The texts of the model's results: an API URL of the upstream, of another
\* host, of the local upstream, a URL of the upstream that is no API URL, no
\* URL at all, a quoted API URL inside JSON, two API URLs
ResultTexts ==
    {TXT_HTTPS \o H_SPACE \o TXT_GRADIO_API \o P_FILE_ARG,
     TXT_HTTPS \o H_SPACE \o TXT_GRADIO_API,
     TXT_HTTPS \o H_OTHER_SPACE \o TXT_GRADIO_API \o P_FILE_ARG,
     TXT_HTTP \o H_LOCALHOST \o TXT_GRADIO_API \o P_FILE_ARG,
     TXT_HTTPS \o H_SPACE \o P_FILE,
     <<"d","o","n","e">>,
     <<"{","\"","u","\"",":","\"">> \o TXT_HTTPS \o H_SPACE \o TXT_GRADIO_API
         \o P_FILE_ARG \o <<"\"","}">>,
     <<"s","e","e"," ">> \o TXT_HTTPS \o H_SPACE \o TXT_GRADIO_API \o P_FILE_ARG
         \o <<" ","o","r"," ">> \o TXT_HTTPS \o H_SPACE \o TXT_GRADIO_API \o P_FILE}

ResultItems == {TextItem(t) : t \in ResultTexts} \cup {ImageItem}

ResultContents ==
    {<<a>> : a \in ResultItems} \cup {<<a, b>> : a \in ResultItems, b \in {ImageItem, TextItem(<<"d","o","n","e">>)}}

ReplicaInputs ==
    [mcpUrl : {U_SPACE_MCP, U_LOCALHOST_MCP},
     responses : ResponseHeaders,
     noReplicaRewrite : BOOLEAN,
     result : [content : ResultContents, isError : BOOLEAN]]

\* The end of callGradioToolWithHeaders once request() has resolved: the
\* header captured from the call's responses, the result rewritten with it
RewriteReplicaUrls ==
    /\ probe.fn = ""
    /\ probe' = [probe EXCEPT
                   !.fn = "rewriteReplicaUrlsInResult",
                   !.result = rewriteReplicaUrlsInResult(
                                  probe.input.result,
                                  handleHeaders(probe.input.responses),
                                  probe.input.noReplicaRewrite)]
    /\ UNCHANGED <<fetchVars, bridgeVars, registryVars, discoveryVars, invokeVars, loggerVars>>

\* A call whose request has resolved with some result, after some responses
ReplicaInit ==
    /\ opts = NoOpts
    /\ call = CallIdle
    /\ tmo = TmoIdle
    /\ net = NetIdle
    /\ body = BodyNone
    /\ bridge = BridgeIdle
    /\ session = SessionNone
    /\ relay = RelayIdle
    /\ registry = RegistryIdle
    /\ callers = CallersIdle
    /\ discovery = DiscoveryIdle
    /\ probe \in {[ProbeIdle EXCEPT !.input = input] : input \in ReplicaInputs}
    /\ invoke = InvokeIdle
    /\ logger = LoggerIdle

\* ------------------- proxy-tools-config.ts: the configuration as text

\* String.prototype.toLowerCase and toUpperCase on the letters the rows of the
\* model use
CsvLower(s) ==
    [i \in 1..Len(s) |->
        CASE s[i] = "P" -> "p" [] s[i] = "I" -> "i" [] s[i] = "D" -> "d" [] OTHER -> s[i]]

CsvUpper(s) ==
    [i \in 1..Len(s) |->
        CASE s[i] = "j" -> "J" [] s[i] = "s" -> "S" [] s[i] = "o" -> "O"
          [] s[i] = "n" -> "N" [] s[i] = "e" -> "E" [] OTHER -> s[i]]

TXT_FTP == <<"f","t","p",":","/","/">>

\* new URL(text) on the URLs the rows of the model use: ok is false when it
\* throws (a text without a scheme, or without a host)
NewUrl(text) ==
    LET scheme == IF StartsWith(text, TXT_HTTPS) THEN TXT_HTTPS
                  ELSE IF StartsWith(text, TXT_HTTP) THEN TXT_HTTP
                  ELSE IF StartsWith(text, TXT_FTP) THEN TXT_FTP
                  ELSE <<>>
        protocol == IF scheme = TXT_HTTPS THEN "https:"
                    ELSE IF scheme = TXT_HTTP THEN "http:" ELSE "ftp:"
        rest == SubSeq(text, Len(scheme) + 1, Len(text))
        slash == IndexOf(rest, "/")
        authority == IF slash = 0 THEN rest ELSE SubSeq(rest, 1, slash - 1)
        at == LastIndexOf(authority, "@")
        host == SubSeq(authority, at + 1, Len(authority))
        path == IF slash = 0 THEN <<"/">> ELSE SubSeq(rest, slash, Len(rest))
    IN  IF scheme = <<>> \/ host = <<>>
        THEN [ok |-> FALSE, url |-> U_DOCS_START]
        ELSE [ok |-> TRUE, url |-> [Url(protocol, host, "", path) EXCEPT !.creds = at > 0]]

VALID_RESPONSE_TYPES == {<<"J","S","O","N">>, <<"S","S","E">>}

\* PROXY_TOOL_URL_POLICY: the policy of the profile httpOrHttpsPermissive
PROXY_TOOL_URL_POLICY == createHttpOrHttpsPolicy

\* a parseCsvLine that knows no quotes
parseCsvLineUnquoted(line) ==
    LET parts == Split(line, ",")
        fields == [i \in 1..Len(parts) |-> Trim(parts[i])]
    IN  IF parts[Len(parts)] = <<>> THEN SubSeq(fields, 1, Len(fields) - 1) ELSE fields

\* The loop of parseCsvLine from character i on
RECURSIVE parseCsvLineFrom(_, _, _, _, _)
parseCsvLineFrom(line, i, current, inQuotes, fields) ==
    IF i > Len(line)
    THEN IF Len(current) > 0 THEN Append(fields, Trim(current)) ELSE fields
    ELSE IF line[i] = "\""
    THEN IF inQuotes /\ i + 1 <= Len(line) /\ line[i + 1] = "\""
         THEN parseCsvLineFrom(line, i + 2, Append(current, "\""), inQuotes, fields)
         ELSE parseCsvLineFrom(line, i + 1, current, ~inQuotes, fields)
    ELSE IF line[i] = "," /\ ~inQuotes
    THEN parseCsvLineFrom(line, i + 1, <<>>, inQuotes, Append(fields, Trim(current)))
    ELSE parseCsvLineFrom(line, i + 1, Append(current, line[i]), inQuotes, fields)

parseCsvLine(line) == parseCsvLineFrom(line, 1, <<>>, FALSE, <<>>)

\* The loop of parseProxyToolsCsv from line i on, with the results and the set
\* seen so far
RECURSIVE parseProxyToolsCsvFrom(_, _, _, _)
parseProxyToolsCsvFrom(lines, i, results, seen) ==
    IF i > Len(lines) THEN results
    ELSE LET line == Trim(lines[i])
             fields == parseCsvLine(line)
             proxyId == Trim(fields[1])
             parsedUrl == NewUrl(Trim(fields[2]))
             responseType == CsvUpper(Trim(fields[3]))
             continue == parseProxyToolsCsvFrom(lines, i + 1, results, seen)
         IN  IF line = <<>> \/ StartsWith(line, <<"#">>) THEN continue
             ELSE IF Len(fields) < 3 THEN continue
             ELSE IF fields[1] = <<>> \/ fields[2] = <<>> \/ fields[3] = <<>> THEN continue
             ELSE IF CsvLower(proxyId) = <<"p","r","o","x","y","_","i","d">> THEN continue
             ELSE IF proxyId \in seen THEN continue
             ELSE IF ~parsedUrl.ok THEN continue
             ELSE IF parseAndValidateUrl(parsedUrl.url, PROXY_TOOL_URL_POLICY) # NoError
             THEN continue
             ELSE IF responseType \notin VALID_RESPONSE_TYPES THEN continue
             ELSE parseProxyToolsCsvFrom(
                      lines, i + 1,
                      Append(results, [proxyId |-> proxyId, url |-> parsedUrl.url,
                                       responseType |-> responseType]),
                      seen \cup {proxyId})

\* parseProxyToolsCsv on the text of the configuration (the operator
\* parseProxyToolsCsv above is the same loop on rows already classified)
parseProxyToolsCsvText(content) ==
    parseProxyToolsCsvFrom(Split(content, "\n"), 1, <<>>, {})

\* Lines of a configuration: a comment, a header row, rows for the ids a, b, c
\* and "a,1" that pass every check, and rows that fail one
L_COMMENT ==
    <<"#"," ","c">>

L_HEADER ==
    <<"P","r","o","x","y","_","I","D",",","u","r","l",",","t","y","p","e">>

L_A_JSON ==
    <<"a",",","h","t","t","p","s",":","/","/","h",".","c","o","/","m",",","j","s","o","n">>

L_A_SSE_HTTP ==
    <<" ","a"," ",","," ","h","t","t","p",":","/","/","h",".","c","o","/","m"," ",","," ","S","S","E"," ">>

L_B_SSE ==
    <<"b",",","h","t","t","p","s",":","/","/","h",".","c","o","/","m",",","S","S","E">>

L_B_FTP ==
    <<"b",",","f","t","p",":","/","/","h",".","c","o","/","m",",","J","S","O","N">>

L_A_NO_URL ==
    <<"a",",","h",".","c","o",",","J","S","O","N">>

L_C_XML ==
    <<"c",",","h","t","t","p","s",":","/","/","h",".","c","o","/","m",",","X","M","L">>

L_C_SHORT ==
    <<"c",",","h","t","t","p","s",":","/","/","h",".","c","o","/","m">>

L_NO_ID ==
    <<",","h","t","t","p","s",":","/","/","h",".","c","o","/","m",",","J","S","O","N">>

L_QUOTED ==
    <<"\"","a",",","1","\"",",","h","t","t","p","s",":","/","/","h",".","c","o","/","m",",","S","S","E">>

L_EMPTY ==
    <<>>

L_B_CREDS ==
    <<"b",",","h","t","t","p","s",":","/","/","u",":","p","@","h",".","c","o","/","m",",","J","S","O","N">>

L_C_ENCODED ==
    <<"c",",","h","t","t","p","s",":","/","/","h",".","c","o","/","a","%","2","f","b",",","J","S","O","N">>

CsvLines ==
    {L_COMMENT, L_HEADER, L_A_JSON, L_A_SSE_HTTP, L_B_SSE, L_B_FTP, L_A_NO_URL, L_C_XML, L_C_SHORT, L_NO_ID, L_QUOTED, L_EMPTY, L_B_CREDS, L_C_ENCODED}

MaxCsvLines == 3

\* The text of a configuration of up to MaxCsvLines lines
RECURSIVE JoinLines(_)
JoinLines(lines) ==
    IF Len(lines) = 0 THEN <<>>
    ELSE IF Len(lines) = 1 THEN lines[1]
    ELSE lines[1] \o <<"\n">> \o JoinLines(Tail(lines))

CsvTextInputs ==
    {[kind |-> "csv", lines |-> lines, content |-> JoinLines(lines)] :
        lines \in UNION {[1..n -> CsvLines] : n \in 1..MaxCsvLines}}

\* parseProxyToolsCsv(content)
ParseProxyToolsCsv ==
    /\ probe.fn = ""
    /\ probe' = [probe EXCEPT !.fn = "parseProxyToolsCsv",
                              !.result = parseProxyToolsCsvText(probe.input.content)]
    /\ UNCHANGED <<fetchVars, bridgeVars, registryVars, discoveryVars, invokeVars, loggerVars>>

\* The text of a configuration has been read
CsvInit ==
    /\ opts = NoOpts
    /\ call = CallIdle
    /\ tmo = TmoIdle
    /\ net = NetIdle
    /\ body = BodyNone
    /\ bridge = BridgeIdle
    /\ session = SessionNone
    /\ relay = RelayIdle
    /\ registry = RegistryIdle
    /\ callers = CallersIdle
    /\ discovery = DiscoveryIdle
    /\ probe \in {[ProbeIdle EXCEPT !.input = input] : input \in CsvTextInputs}
    /\ invoke = InvokeIdle
    /\ logger = LoggerIdle

\* A logger has been constructed with some batch size
LoggerInit ==
    /\ opts = NoOpts
    /\ call = CallIdle
    /\ tmo = TmoIdle
    /\ net = NetIdle
    /\ body = BodyNone
    /\ bridge = BridgeIdle
    /\ session = SessionNone
    /\ relay = RelayIdle
    /\ registry = RegistryIdle
    /\ callers = CallersIdle
    /\ discovery = DiscoveryIdle
    /\ probe = ProbeIdle
    /\ invoke = InvokeIdle
    /\ logger \in {[LoggerIdle EXCEPT !.batchSize = batchSize] : batchSize \in BatchSizes}

\* Nothing has been called yet, and PROXY_TOOLS_CSV is unset
Init ==
    /\ opts = NoOpts
    /\ call = CallIdle
    /\ tmo = TmoIdle
    /\ net = NetIdle
    /\ body = BodyNone
    /\ bridge = BridgeIdle
    /\ session = SessionNone
    /\ relay = RelayIdle
    /\ registry = RegistryIdle
    /\ callers = CallersIdle
    /\ discovery = DiscoveryIdle
    /\ probe = ProbeIdle
    /\ invoke = InvokeIdle
    /\ logger = LoggerIdle

\* Nothing has been called yet; PROXY_TOOLS_CSV is whatever the process was
\* started with
RegistryInit ==
    /\ opts = NoOpts
    /\ call = CallIdle
    /\ tmo = TmoIdle
    /\ net = NetIdle
    /\ body = BodyNone
    /\ bridge = BridgeIdle
    /\ session = SessionNone
    /\ relay = RelayIdle
    /\ registry \in {[RegistryIdle EXCEPT !.source = kind] : kind \in SourceKinds}
    /\ callers = CallersIdle
    /\ discovery = DiscoveryIdle
    /\ probe = ProbeIdle
    /\ invoke = InvokeIdle
    /\ logger = LoggerIdle

\* loadProxyToolsConfig() is called, up to the first await it reaches
LoadProxyToolsConfig ==
    /\ \E c \in Callers :
          /\ callers[c].state = "idle"
          /\ \E decision \in {loadDecision(registry)} :
                IF decision = "cached"
                THEN /\ callers' = [callers EXCEPT ![c] = [state |-> "got",
                                                           result |-> registry.cachedTools.tools]]
                     /\ registry' = registry
                ELSE IF decision = "promise"
                THEN /\ callers' = [callers EXCEPT ![c].state = "awaiting"]
                     /\ registry' = registry
                ELSE /\ callers' = [callers EXCEPT ![c].state = "awaiting"]
                     /\ registry' =
                          IF registry.source = ""
                          THEN settleWith(registry, <<>>)
                          ELSE [registry EXCEPT !.cachedConfigPromise = "pending",
                                                !.stage = "reading",
                                                !.sourceReads = @ + 1]
    /\ UNCHANGED <<fetchVars, bridgeVars, discoveryVars, policyVars, invokeVars, loggerVars>>

\* The read of the configuration source settles: it failed, or it gave a CSV
\* naming some sources, for which loadProxyToolSchemas starts one schema task
\* each (none for an empty list)
SourceRead ==
    /\ registry.stage = "reading"
    /\ \E failed \in BOOLEAN, n \in 0..MaxSources :
          registry' =
              IF failed \/ n = 0 THEN settleWith(registry, <<>>)
              ELSE [registry EXCEPT !.stage = "loading",
                                    !.parsedSources = n,
                                    !.fanOuts = @ + 1]
    /\ UNCHANGED callers
    /\ UNCHANGED <<fetchVars, bridgeVars, discoveryVars, policyVars, invokeVars, loggerVars>>

\* Promise.all(schemaTasks) resolves: each task gave the tools of its source, or
\* none when it failed or timed out
SchemasLoaded ==
    /\ registry.stage = "loading"
    /\ \E loaded \in SUBSET (1..registry.parsedSources) :
          registry' = settleWith(registry, flatMapTools(loaded, registry.parsedSources))
    /\ UNCHANGED callers
    /\ UNCHANGED <<fetchVars, bridgeVars, discoveryVars, policyVars, invokeVars, loggerVars>>

\* A caller's await of the promise resumes
CallerResumes ==
    /\ registry.cachedConfigPromise = "resolved"
    /\ \E c \in Callers :
          /\ callers[c].state = "awaiting"
          /\ callers' = [callers EXCEPT ![c] = [state |-> "got", result |-> registry.settled]]
    /\ UNCHANGED registry
    /\ UNCHANGED <<fetchVars, bridgeVars, discoveryVars, policyVars, invokeVars, loggerVars>>

vars == <<opts, call, tmo, net, body, bridge, session, relay, registry, callers,
         discovery, probe, invoke, logger>>

Next ==
    \/ SafeFetch
    \/ NextExchange
    \/ RespondFinal
    \/ RespondRedirect
    \/ NetworkError
    \/ TimeoutElapses
    \/ CallerAborts
    \/ BodyEnds

Spec == Init /\ [][Next]_vars

BridgeNext ==
    \/ BridgeCall
    \/ ConnectResolves
    \/ ConnectRejects
    \/ UpstreamProgress
    \/ RelayResolves
    \/ RelayRejects
    \/ CallerCancels
    \/ UpstreamResult
    \/ RequestRejects
    \/ CloseSettles

SpecBridge == Init /\ [][BridgeNext]_vars

RegistryNext ==
    \/ LoadProxyToolsConfig
    \/ SourceRead
    \/ SchemasLoaded
    \/ CallerResumes

SpecRegistry == RegistryInit /\ [][RegistryNext]_vars

DiscoveryNext ==
    \/ LoadProxyToolSchemas
    \/ SchemaTaskSettles
    \/ SchemasFlattened

SpecDiscovery == DiscoveryInit /\ [][DiscoveryNext]_vars

AddressNext ==
    \/ ClassifyAddress
    \/ ClassifyMappedAddress
    \/ AssertExternalAddress

SpecAddress == AddressInit /\ [][AddressNext]_vars

UrlPolicyNext == ParseAndValidateUrl

SpecUrlPolicy == UrlPolicyInit /\ [][UrlPolicyNext]_vars

GradioFetchNext ==
    \/ GradioTransportFetch
    \/ NextExchange
    \/ RespondFinal
    \/ RespondRedirect
    \/ NetworkError
    \/ CallerAborts
    \/ BodyEnds

SpecGradioFetch == Init /\ [][GradioFetchNext]_vars

InvokeNext ==
    \/ InvokeSpace
    \/ FetchSpaceMetadataSettles
    \/ FetchGradioSchemaSettles
    \/ ConnectResolves
    \/ ConnectRejects
    \/ UpstreamProgress
    \/ RelayResolves
    \/ RelayRejects
    \/ CallerCancels
    \/ UpstreamResult
    \/ RequestRejects
    \/ CloseSettles
    \/ InvokeSpaceSettles

SpecInvoke == Init /\ [][InvokeNext]_vars

ReplicaNext == RewriteReplicaUrls

SpecReplica == ReplicaInit /\ [][ReplicaNext]_vars

CsvNext == ParseProxyToolsCsv

SpecCsv == CsvInit /\ [][CsvNext]_vars

LoggerNext ==
    \/ ProcessLog
    \/ FlushTimerFires
    \/ UploadResolves
    \/ UploadRejects
    \/ Destroy

SpecLogger == LoggerInit /\ [][LoggerNext]_vars

\* ------------------------------------------- properties of safeFetch

\* C1: safeFetch begins no HTTP exchange for a URL unless that exact URL has
\* passed parseAndValidateUrl under the policy of the call, on the first hop and
\* on every redirect hop, and the exchange of one hop is begun only after the
\* response of the hop before it was received.
C1_ExchangeOnlyAfterValidation ==
    /\ call.pc = "inflight" =>
          /\ parseAndValidateUrl(Request(call).url, urlPolicyOf(opts.urlPolicy)) = NoError
          /\ net.candidate = Request(call).url
          /\ net.nExchanges = net.nResponses + 1
    /\ net.nExchanges <= net.nResponses + 1

C1_Witness ==
    /\ call.pc = "inflight"
    /\ call.redirectsFollowed = 2
    /\ net.nExchanges = 3
    /\ net.nResponses = 2

\* C2: every redirect target is validated against the policy of the call; when
\* the target violates the policy the call fails with that violation and begins
\* no further exchange.
C2_RedirectTargetValidated ==
    (/\ net.nResponses > 0
     /\ parseAndValidateUrl(net.candidate, urlPolicyOf(opts.urlPolicy)) # NoError) =>
        /\ call.pc = "failed"
        /\ call.error = parseAndValidateUrl(net.candidate, urlPolicyOf(opts.urlPolicy))
        /\ net.nExchanges = net.nResponses

C2_Witness ==
    /\ call.pc = "failed"
    /\ call.error = "URL hostname is not allowed"
    /\ net.candidate = U_EXAMPLE
    /\ net.nResponses = 1
    /\ net.nExchanges = 1

\* C3: with externalOnly set, the host name of every URL an exchange is begun
\* for has passed assertExternalAddress, the first URL and every redirect target
\* alike; a URL whose host is a literal internal address fails with "Blocked
\* internal or reserved address" and no exchange is begun for it.
C3_ExternalOnlyAddressChecked ==
    opts.externalOnly =>
        /\ call.pc = "inflight" =>
              /\ net.addrChecked = Request(call).url.hostname
              /\ ~(/\ detectIpVersion(normalizeHostname(Request(call).url.hostname)) # 0
                   /\ isIpInternalOrReserved(normalizeHostname(Request(call).url.hostname)))
        /\ (/\ call.pc # "idle"
            /\ parseAndValidateUrl(net.candidate, urlPolicyOf(opts.urlPolicy)) = NoError
            /\ detectIpVersion(normalizeHostname(net.candidate.hostname)) # 0
            /\ isIpInternalOrReserved(normalizeHostname(net.candidate.hostname))) =>
              /\ call.pc = "failed"
              /\ call.error = "Blocked internal or reserved address"
              /\ net.nExchanges = net.nResponses

C3_Witness ==
    /\ opts.externalOnly
    /\ call.pc = "failed"
    /\ call.error = "Blocked internal or reserved address"
    /\ net.candidate = U_LOOPBACK
    /\ net.nExchanges = 0

\* C4: whatever headers the caller supplied, the request that follows a redirect
\* to another origin carries none of authorization, proxy-authorization, cookie
\* and x-hf-authorization (with the stripping option left at its default).
C4_SensitiveHeadersDropped ==
    (call.pc = "inflight" /\ opts.strip /\ net.crossOrigin) =>
        Request(call).headers \cap SENSITIVE_HEADERS = {}

\* C5: a call begins at most maxRedirects + 1 exchanges; a redirect response
\* beyond the limit makes it fail with "Redirect limit exceeded", with no further
\* exchange and no response handed to the caller.
C5_RedirectLimit ==
    /\ net.nExchanges <= (IF opts.maxRedirects < 0 THEN 0 ELSE opts.maxRedirects + 1)
    /\ call.error = "Redirect limit exceeded" =>
          /\ call.pc = "failed"
          /\ net.nExchanges = opts.maxRedirects + 1
          /\ net.nResponses = net.nExchanges
          /\ call.status = 0
          /\ body.state = "none"

C5_Witness ==
    /\ call.error = "Redirect limit exceeded"
    /\ opts.maxRedirects = 2
    /\ net.nExchanges = 3

\* C7: a positive timeout stays in force after safeFetch has returned: when it
\* elapses while the caller still reads the body, the body stream is aborted and
\* the read fails with an AbortError.
C7_TimeoutAbortsBodyRead ==
    (call.pc = "done" /\ opts.timeoutMs > 0 /\ tmo.elapsed) => body.state # "open"

\* C8: with a positive timeout and a caller signal, the signal stays connected
\* after safeFetch has returned: when the caller aborts it while the body is
\* read, the body stream is aborted and the read fails with an AbortError.
C8_CallerAbortAbortsBodyRead ==
    (call.pc = "done" /\ opts.timeoutMs > 0 /\ opts.hasSignal /\ tmo.outerAborted) =>
        body.state # "open"

\* C9: with a positive timeout, an exchange the timeout ended fails with
\* "Request timed out" and an exchange the caller's signal ended fails with
\* "Request was aborted", never the one for the other, in whichever order the
\* timeout and the caller's abort come.
C9_TimeoutAndAbortDistinguished ==
    opts.timeoutMs > 0 =>
        /\ call.error = "Request timed out" => (tmo.elapsed /\ ~tmo.outerAborted)
        /\ call.error = "Request was aborted" => (tmo.outerAborted /\ ~tmo.elapsed)
        /\ (call.pc = "failed" /\ tmo.elapsed) => call.error = "Request timed out"
        /\ (call.pc = "failed" /\ tmo.outerAborted) => call.error = "Request was aborted"

C9_Witness ==
    /\ call.pc = "failed"
    /\ opts.timeoutMs > 0
    /\ opts.hasSignal
    /\ call.error = "Request timed out"
    /\ net.nExchanges = 2

\* C29: when safeFetch succeeds, redirectsFollowed is the number of HTTP
\* exchanges begun minus one, every exchange was answered, and finalUrl is the
\* URL of the last exchange, which is the URL last validated: the initial URL,
\* or the Location of the last redirect resolved against the URL that returned
\* it.
C29_RedirectsCountedAndFinalUrl ==
    call.pc = "done" =>
        /\ call.redirectsFollowed = net.nExchanges - 1
        /\ net.nResponses = net.nExchanges
        /\ call.currentUrl = net.lastUrl
        /\ call.currentUrl = net.candidate

\* One 302 with the relative Location /docs/next answering
\* https://huggingface.co/docs/start, then a 200
C29_Witness ==
    /\ call.pc = "done"
    /\ opts.urlPolicy = "createHfDocsPolicy"
    /\ opts.externalOnly
    /\ call.status = 200
    /\ call.redirectsFollowed = 1
    /\ call.currentUrl = Url("https:", H_HF, "", P_DOCS_NEXT)
    /\ net.nExchanges = 2

\* C30: when a redirect is followed, the next request is a GET with no body
\* and with neither content-length nor content-type after a 303 and after a
\* 301 or 302 that answered a POST, and it has the method and the body of the
\* redirected request after a 307 or 308.
C30_MethodAndBodyAfterRedirect ==
    [][(call.pc = "inflight" /\ call'.pc = "hop") =>
          IF call'.status = 303
             \/ (call'.status \in {301, 302} /\ Request(call).method = "POST")
          THEN /\ Request(call').method = "GET"
               /\ ~Request(call').body
               /\ Request(call').headers \cap {"content-length", "content-type"} = {}
          ELSE call'.status \in {307, 308} =>
                  /\ Request(call').method = Request(call).method
                  /\ Request(call').body = Request(call).body]_vars

\* A request that carried content-type and cookie was answered 302 and the
\* next request, a GET without body, is on the wire: cookie is still there, so
\* content-type was dropped by the downgrade of a POST
C30_Witness ==
    /\ call.pc = "inflight"
    /\ call.status = 302
    /\ call.redirectsFollowed = 1
    /\ Request(call).method = "GET"
    /\ ~Request(call).body
    /\ "cookie" \in Request(call).headers
    /\ "content-type" \notin Request(call).headers

\* C31, as stated: a followed redirect whose target has the origin of the URL
\* that answered it leaves the request headers unchanged.
C31_SameOriginHeadersUnchanged ==
    [][(call.pc = "inflight" /\ call'.pc = "hop"
        /\ Origin(call'.currentUrl) = Origin(call.currentUrl)) =>
          Request(call').headers = Request(call).headers]_vars

\* C31, amended: a followed redirect whose target has the origin of the URL
\* that answered it removes no header but content-length and content-type, and
\* those only when the redirect turns the request into a GET (a 303, or a 301 or
\* 302 answering a POST); an authorization header present before it is present
\* on the follow-up request.
C31_SameOriginKeepsHeaders ==
    [][(call.pc = "inflight" /\ call'.pc = "hop"
        /\ Origin(call'.currentUrl) = Origin(call.currentUrl)) =>
          /\ Request(call').headers \subseteq Request(call).headers
          /\ Request(call).headers \ Request(call').headers
                 \subseteq {"content-length", "content-type"}
          /\ Request(call').headers # Request(call).headers =>
                 (call'.status = 303
                  \/ (call'.status \in {301, 302} /\ Request(call).method = "POST"))
          /\ "authorization" \in Request(call).headers =>
                 "authorization" \in Request(call').headers]_vars

\* The request after one redirect within the origin, with the stripping option
\* on, carries authorization
C31_Witness ==
    /\ call.pc = "inflight"
    /\ opts.strip
    /\ call.redirectsFollowed = 1
    /\ ~net.crossOrigin
    /\ "authorization" \in Request(call).headers

\* C34: a response with a redirect status and no Location header makes
\* safeFetch fail, with every exchange begun answered and none begun after it;
\* no response is handed to the caller, and a response handed to the caller
\* never has a redirect status.
C34_RedirectWithoutLocationFails ==
    /\ net.noLocationSeen =>
          /\ call.pc = "failed"
          /\ call.error \in {"Redirect response missing Location header",
                              "Redirect limit exceeded"}
          /\ net.nExchanges = net.nResponses
          /\ body.state = "none"
    /\ call.error = "Redirect response missing Location header" => net.noLocationSeen
    /\ call.pc = "done" => ~isRedirectStatus(call.status)

\* The second response of a call is a redirect without Location, within the
\* limit of redirects
C34_Witness ==
    /\ net.noLocationSeen
    /\ call.pc = "failed"
    /\ call.error = "Redirect response missing Location header"
    /\ opts.maxRedirects = 2
    /\ net.nExchanges = 2
    /\ net.nResponses = 2

\* C36: within one call, a sensitive header that is absent from the request of
\* a hop is absent from the request of every later hop: what a cross-origin
\* redirect removed is not put back by a later redirect, whether it stays on
\* the new origin or leads back to the first one.
C36_StrippedHeadersStayStripped ==
    [][(call.pc \in {"hop", "inflight"} /\ call'.pc \in {"hop", "inflight"}) =>
          Request(call').headers \cap SENSITIVE_HEADERS
              \subseteq Request(call).headers \cap SENSITIVE_HEADERS]_vars

\* The call began at https://huggingface.co/docs/start with headers (every
\* initial set of headers has a sensitive one), was redirected to another
\* origin and from there back to the first one: the third request carries no
\* header
C36_Witness ==
    /\ call.pc = "inflight"
    /\ opts.urlPolicy = "createHfDocsPolicy"
    /\ opts.strip
    /\ call.redirectsFollowed = 2
    /\ net.crossOrigin
    /\ Origin(Request(call).url) = Origin(U_DOCS_START)
    /\ Request(call).headers = {}

C6_SessionClosedOnEveryExit ==
    /\ session.opened <= 1
    /\ (bridge.pc \in {"returned", "threw"} /\ session.opened = 1) => session.closeCalls = 1

\* What a forwarded call returns or throws when no relay is installed: the
\* upstream's answer, unless request() or close() rejected
OutcomeWithoutRelay(answer, closed) ==
    IF answer = "rejected" \/ closed = "rejected" THEN "thrown" ELSE answer

\* C21: a failure to relay a progress notification never fails the forwarded
\* call: whatever upstream progress events and relay failures there were, a
\* call whose request was answered returns or throws what it would have with
\* no relay installed, the upstream's result when request and close succeeded.
C21_RelayFailureNeverFailsCall ==
    (bridge.pc \in {"returned", "threw"} /\ session.answer # "none") =>
        /\ bridge.outcome = OutcomeWithoutRelay(session.answer, session.closed)
        /\ (bridge.pc = "returned") = (bridge.outcome # "thrown")

\* A call of the Gradio bridge whose two relay attempts both failed has
\* returned the upstream's result
C21_Witness ==
    /\ bridge.pc = "returned"
    /\ bridge.outcome = "result"
    /\ session.answer = "result"
    /\ relay.rejected = MaxProgressEvents
    /\ bridge.progressRelayDisabled

\* C22: within one call the relay is disabled for good once a relay attempt
\* has failed or the caller's cancellation was observed: the flag never goes
\* back to false, and no progress event after that starts a sendNotification
\* call; the event is skipped and the call goes on.
C22_RelayDisabledPermanently ==
    [][bridge.progressRelayDisabled =>
          /\ bridge'.progressRelayDisabled
          /\ relay'.pending <= relay.pending
          /\ (session'.events > session.events =>
                 (bridge'.pc = bridge.pc /\ bridge'.outcome = bridge.outcome))]_vars

\* The first relay attempt failed and a later progress event was skipped:
\* nothing is pending, nothing was sent, one attempt was rejected
C22_Witness ==
    /\ bridge.progressRelayDisabled
    /\ ~relay.aborted
    /\ session.events = 2
    /\ relay.rejected = 1
    /\ relay.pending = 0
    /\ relay.sent = 0

\* C23: the relay-failure hook is invoked at most once during one call,
\* however the relay attempts of the upstream's progress events overlap.
C23_RelayFailureRecordedOnce ==
    relay.failures <= 1

\* C24: once the caller has cancelled a forwarded call, the bridge is not
\* waiting for the upstream's answer to tools/call: the cancellation aborts
\* the exchange in flight.
C24_CancelAbortsUpstream ==
    relay.aborted => bridge.pc # "requesting"

\* The text of the origin of a URL
OriginText(url) ==
    (IF url.protocol = "https:" THEN TXT_HTTPS ELSE TXT_HTTP) \o url.hostname

\* A text in which exactly the API URLs of the given origin have the replica
\* id put before /gradio_api, scanning from index i
RECURSIVE SameOriginRewrittenFrom(_, _, _, _)
SameOriginRewrittenFrom(s, i, origin, replicaId) ==
    IF i > Len(s) THEN <<>>
    ELSE IF AtOffset(s, i, origin \o TXT_GRADIO_API)
    THEN origin \o TXT_REPLICAS \o replicaId \o TXT_GRADIO_API
             \o SameOriginRewrittenFrom(s, i + Len(origin \o TXT_GRADIO_API), origin, replicaId)
    ELSE <<s[i]>> \o SameOriginRewrittenFrom(s, i + 1, origin, replicaId)

ReplicaRewritten == probe.fn = "rewriteReplicaUrlsInResult"

\* C25: with a replica id captured from the call's responses, the result
\* returned has, in its text items, exactly the API URLs of the upstream's own
\* origin rewritten to hold the id, URLs of other origins and items that are
\* no text unchanged; with no header or no id in it the result is returned as
\* it was.
C25_ReplicaRewriteSameOriginOnly ==
    (ReplicaRewritten /\ ~probe.input.noReplicaRewrite) =>
        \E id \in {extractReplicaId(handleHeaders(probe.input.responses))} :
            IF id = <<>> THEN probe.result = probe.input.result
            ELSE /\ probe.result.isError = probe.input.result.isError
                 /\ Len(probe.result.content) = Len(probe.input.result.content)
                 /\ \A n \in 1..Len(probe.input.result.content) :
                       \E item \in {probe.input.result.content[n]} :
                          IF item.hasText
                          THEN probe.result.content[n] =
                                 [item EXCEPT !.text = SameOriginRewrittenFrom(
                                     @, 1, OriginText(probe.input.mcpUrl), id)]
                          ELSE probe.result.content[n] = item

\* C26: invokeSpace never throws: an error raised while the parameters are
\* parsed, the metadata or the schema fetched, the target URL validated, the
\* upstream connected to, invoked or torn down is caught inside it and
\* returned as a result with isError = true.
C26_InvokeSpaceNeverThrows ==
    /\ invoke.pc # "threw"
    /\ invoke.raised => (invoke.pc = "returned" /\ invoke.result = ErrorText)
    /\ (invoke.pc = "returned" /\ bridge.pc = "threw") => invoke.result = ErrorText

\* invokeSpace has returned an error result after the teardown of the
\* upstream session failed on an answered request
C26_Witness ==
    /\ invoke.pc = "returned"
    /\ invoke.raised
    /\ invoke.result.isError
    /\ bridge.pc = "threw"
    /\ session.answer = "result"
    /\ session.closed = "rejected"

\* C27: every outbound HTTP request of every component is issued through
\* safeFetch (fetchWithProfile), so that it and each of its redirect hops is
\* validated before it is sent; here, the requests of the discovery sessions
\* that list the tools of the proxy sources.
C27_RequestsThroughSafeFetch ==
    \A k \in 1..Len(discovery.tasks) :
        discovery.tasks[k].via \in {"none", "fetchWithProfile"}

\* ------------------------------------ properties of the tool registry

\* C10: loadProxyToolsConfig computes the registry at most once: however many
\* callers there are, one after another or at the same time, the configuration
\* source is read at most once, the fan-out over the sources runs at most once,
\* and every caller receives the same list.
C10_RegistryComputedOnce ==
    /\ registry.sourceReads <= 1
    /\ registry.fanOuts <= 1
    /\ \A c \in Callers :
          callers[c].state = "got" =>
              /\ registry.cachedTools.set
              /\ callers[c].result = registry.cachedTools.tools
              /\ \A d \in Callers : callers[d].state = "got" => callers[d].result = callers[c].result

C10_Witness ==
    /\ registry.sourceReads = 1
    /\ registry.fanOuts = 1
    /\ \A c \in Callers : callers[c].state = "got" /\ callers[c].result # <<>>

\* The outward names a reader may ask for
RegistryToolNames == 1..MaxSources

\* What a reader sees in this state is the empty list with no definition, or
\* the list the load has settled with and the definitions of its names
SnapshotConsistent ==
    /\ getProxyToolsConfig(registry) # <<>> =>
           /\ registry.stage = "done"
           /\ getProxyToolsConfig(registry) = registry.settled
    /\ registry.stage # "done" => getProxyToolsConfig(registry) = <<>>
    /\ \A name \in RegistryToolNames :
           (getProxyToolDefinition(registry, name) # {})
              <=> (\E i \in DOMAIN getProxyToolsConfig(registry) :
                      entryToolName(getProxyToolsConfig(registry)[i]) = name)
    /\ registry.cacheWrites <= 1

\* A step leaves a populated cache as it is
PopulatedCacheKept ==
    registry.cachedTools.set =>
        /\ registry'.cachedTools = registry.cachedTools
        /\ registry'.cachedToolsByName = registry.cachedToolsByName

\* C40: in every state of the registry cache, before, during and after the one
\* load, getProxyToolsConfig returns the empty list or the complete final list,
\* getProxyToolDefinition(name) returns a definition exactly when that list has
\* an entry of that outward name, and a populated cache is never written again.
C40_CacheSnapshotConsistent == [](SnapshotConsistent) /\ [][PopulatedCacheKept]_vars

\* The load has settled with two definitions and every caller has its list
C40_Witness ==
    /\ registry.stage = "done"
    /\ Len(getProxyToolsConfig(registry)) = MaxSources
    /\ \A name \in RegistryToolNames : getProxyToolDefinition(registry, name) = {name}
    /\ \A c \in Callers : callers[c].state = "got"

\* ------------------------------------ properties of schema discovery

\* The definitions source k contributes to the registry, in their order
ContributionOf(k) ==
    SelectSeq(discovery.result, LAMBDA d : d.proxyId = discovery.sources[k])

\* The outward name the registry is to give a tool of a source
OutwardName(proxyId, name) ==
    IF Len(discovery.sources) > 1 THEN proxyId \o <<"_">> \o name ELSE name

\* The tools (with an object input schema) a listing names, in their order
ListedTools(listing) == SelectSeq(listing, LAMBDA t : t.schemaType = "object")

\* C11: discovery failures are isolated per source: whichever sources time out,
\* fail or list no tools, the load does not fail, and once every task has
\* settled the registry holds, for each healthy source, exactly the tools it
\* listed, named <sourceId>_<upstreamToolName> when more than one source is
\* configured, and nothing for a failing source.
C11_DiscoveryFailuresIsolated ==
    /\ discovery.stage # "failed"
    /\ discovery.stage = "done" =>
          /\ \A i \in 1..Len(discovery.result) :
                \E k \in 1..Len(discovery.sources) :
                    discovery.result[i].proxyId = discovery.sources[k]
          /\ \A k \in 1..Len(discovery.sources) :
                IF discovery.tasks[k].outcome = "listed"
                THEN LET tools == ListedTools(discovery.tasks[k].listing)
                     IN  ContributionOf(k) =
                            [i \in 1..Len(tools) |->
                                [proxyId |-> discovery.sources[k],
                                 toolName |-> OutwardName(discovery.sources[k], tools[i].name),
                                 upstreamToolName |-> tools[i].name]]
                ELSE ContributionOf(k) = <<>>

C11_Witness ==
    /\ discovery.stage = "done"
    /\ Len(discovery.sources) = 3
    /\ discovery.tasks[2].outcome = "timeout"
    /\ discovery.tasks[1].outcome = "listed"
    /\ discovery.tasks[3].outcome = "listed"
    /\ Len(discovery.result) = 4

\* C12: in every registry loaded, the outward tool names are pairwise distinct,
\* whatever the source ids and the upstream tool names are.
C12_OutwardNamesDistinct ==
    discovery.stage = "done" =>
        \A i, j \in 1..Len(discovery.result) :
            i # j => discovery.result[i].toolName # discovery.result[j].toolName

\* ------------------------------------------- properties of ip-policy

\* The host names among GuardHosts that are IP literals, by what they denote
InternalLiterals == {A_PRIVATE, <<"[",":",":","1","]">>}

ExternalLiterals ==
    {A_PUBLIC, <<"[","2","6","0","6",":","4","7","0","0",":",":","1","1","1","1","]">>}

\* The addresses among GuardAddresses that are internal or reserved
InternalAddresses == {A_PRIVATE, A_LINK_LOCAL}

\* The host names a value of ALLOW_INTERNAL_ADDRESS_HOSTS is to cover: an exact
\* entry covers that name, a "*.domain" entry the domain and its subdomains
CoveredBy(env) ==
    IF env = <<"h","f",".","c","o">> THEN {H_HFCO, H_HFCO_UPPER_DOT}
    ELSE IF env = <<"*",".","h","f",".","c","o">>
    THEN {H_HFCO, H_HFCO_UPPER_DOT, H_SUB_HFCO}
    ELSE IF env = <<" ","H","F",".","c","o","."," ",",",",","*",".","c","o">>
    THEN {H_HFCO, H_HFCO_UPPER_DOT, H_SUB_HFCO, H_BAD_HFCO}
    ELSE {}

GuardApplied == probe.fn = "assertExternalAddress"

GuardLiteral == probe.input.hostname \in InternalLiterals \cup ExternalLiterals

GuardResolved == probe.input.firstLookup \cup probe.input.secondLookup

C14_SecondLookupSameCheck ==
    (/\ GuardApplied
     /\ ~GuardLiteral
     /\ probe.input.firstLookup # {}
     /\ probe.input.firstLookup \cap InternalAddresses = {}) =>
        /\ probe.input.secondLookup = {} => probe.result.verdict # NoError
        /\ (/\ probe.input.secondLookup \cap InternalAddresses # {}
            /\ probe.input.hostname \notin CoveredBy(probe.input.env)) =>
              probe.result.verdict # NoError

\* C15: the override for internal addresses applies exactly to the host names an
\* entry of ALLOW_INTERNAL_ADDRESS_HOSTS covers: such a name passes although it
\* resolves to internal addresses, and a name no entry covers is rejected when
\* it resolves to one.
C15_OverrideExactlyForCoveredHosts ==
    (/\ GuardApplied
     /\ ~GuardLiteral
     /\ probe.input.firstLookup # {}
     /\ GuardResolved \cap InternalAddresses # {}) =>
        (probe.result.verdict = NoError <=>
            probe.input.hostname \in CoveredBy(probe.input.env))

C15_Witness ==
    /\ GuardApplied
    /\ probe.input.hostname = H_SUB_HFCO
    /\ probe.input.env = <<"*",".","h","f",".","c","o">>
    /\ probe.input.firstLookup = {A_PRIVATE}
    /\ probe.result.verdict = NoError

\* The table of internal and reserved IPv4 ranges, by prefix
InTableV4(o) ==
    \/ o[1] \in {0, 10, 127}
    \/ o[1] = 100 /\ o[2] \in 64..127
    \/ o[1] = 169 /\ o[2] = 254
    \/ o[1] = 172 /\ o[2] \in 16..31
    \/ o[1] = 192 /\ o[2] = 0 /\ o[3] \in {0, 2}
    \/ o[1] = 192 /\ o[2] = 88 /\ o[3] = 99
    \/ o[1] = 192 /\ o[2] = 168
    \/ o[1] = 198 /\ o[2] \in {18, 19}
    \/ o[1] = 198 /\ o[2] = 51 /\ o[3] = 100
    \/ o[1] = 203 /\ o[2] = 0 /\ o[3] = 113
    \/ o[1] \in 224..255

\* The table of internal and reserved IPv6 ranges: unspecified, loopback,
\* fc00::/7, fe80::/10, ff00::/8, 2001:db8::/32, 2001:10::/28
InTableV6(g) ==
    \/ g \in {<<0,0,0,0,0,0,0,0>>, <<0,0,0,0,0,0,0,1>>}
    \/ g[1] \in 64512..65023
    \/ g[1] \in 65152..65215
    \/ g[1] \in 65280..65535
    \/ g[1] = 8193 /\ g[2] = 3512
    \/ g[1] = 8193 /\ g[2] \in 16..31

\* C16: isIpInternalOrReserved is true of an address exactly when the address
\* lies in the table of internal and reserved ranges, the bounds of the ranges
\* included, and false of every other address.
C16_ClassifiedByTable ==
    probe.fn = "isIpInternalOrReserved" =>
        probe.result = (IF probe.input.kind = "v4" THEN InTableV4(probe.input.groups)
                        ELSE InTableV6(probe.input.groups))

C16_Witness ==
    /\ probe.fn = "isIpInternalOrReserved"
    /\ probe.input.kind = "v4"
    /\ probe.input.groups = <<100, 127, 255, 255>>
    /\ probe.result = TRUE

\* C17: the IPv4-mapped IPv6 forms of an IPv4 address (dotted or hexadecimal,
\* bracketed or not) are classified as the IPv4 address is.
C17_MappedClassifiedAsIpv4 ==
    probe.fn = "isIpInternalOrReserved(mapped)" =>
        \A i \in 1..Len(probe.result.mapped) : probe.result.mapped[i] = probe.result.plain

C17_Witness ==
    /\ probe.fn = "isIpInternalOrReserved(mapped)"
    /\ probe.input.groups = <<10, 0, 0, 1>>
    /\ probe.result.plain = TRUE
    /\ probe.result.mapped = <<TRUE, TRUE, TRUE, TRUE>>

\* ------------------------------------------ properties of url-policy

UrlValidated == probe.fn = "parseAndValidateUrl"

\* C18: under every policy parseAndValidateUrl rejects a URL whose parsed path,
\* as it is or after one or two further percent-decodings, holds a "." or ".."
\* segment or an encoded path separator.
C18_TraversalRejected ==
    (UrlValidated /\ probe.input.unsafe) => probe.result # NoError

C18_Witness ==
    /\ UrlValidated
    /\ probe.input.policy = createExternalHttpsPolicy
    /\ probe.input.url.hostname = H_EXAMPLE
    /\ probe.input.url.pathname =
          <<"/","d","o","c","s","/","%","2","5","2","e","%","2","5","2","e","/","x">>
    /\ probe.result = "URL path contains dot-segments"

\* The hub host names, and the four host names of the docs policy, trailing
\* dots and case set aside
HubHostTexts == {H_HF, H_WWWHF, H_HF_DOT}

DocsHostTexts == HubHostTexts \cup {H_GRADIO, H_WWWGRADIO}

\* A path is /docs or lies below it
UnderDocs(pathname) == pathname = <<"/","d","o","c","s">> \/ StartsWith(pathname, P_DOCS)

\* C19: the docs policy accepts a URL only if it is https, carries no
\* credentials, its host is one of huggingface.co, www.huggingface.co, gradio.app
\* and www.gradio.app, and, on a hub host, its path is under /docs/ and no
\* percent-decoding of it leads out of /docs/.
C19_DocsPolicyAccepts ==
    (/\ UrlValidated
     /\ probe.input.policy = createHfDocsPolicy
     /\ probe.result = NoError) =>
        /\ probe.input.url.protocol = "https:"
        /\ ~probe.input.url.creds
        /\ probe.input.url.hostname \in DocsHostTexts
        /\ probe.input.url.hostname \in HubHostTexts =>
              /\ UnderDocs(probe.input.url.pathname)
              /\ ~probe.input.unsafe

C19_Witness ==
    /\ UrlValidated
    /\ probe.input.policy = createHfDocsPolicy
    /\ probe.input.url.hostname = H_HF
    /\ probe.input.url.pathname = <<"/","d","o","c","s","/","a","%","2","0","b">>
    /\ probe.input.url.protocol = "https:"
    /\ ~probe.input.url.creds
    /\ probe.result = NoError

\* The name a host text stands for, case and trailing dots set aside
CanonicalHost(hostname) ==
    IF hostname \in {H_HFCO, H_HFCO_UPPER_DOT, <<"H","F",".","C","O">>, <<"h","f",".","c","o",".">>}
    THEN H_HFCO
    ELSE IF hostname = H_HF_DOT THEN H_HF
    ELSE hostname

\* The pairs (name, domain) in which the name is a subdomain of the domain
SubdomainPairs == {<<H_SUB_HFCO, H_HFCO>>, <<H_WWWHF, H_HF>>, <<H_WWWGRADIO, H_GRADIO>>}

HasHostRule(policy) == policy.hasAllowedHosts \/ policy.allowSubdomainsOf # {}

HostMatchesRule(hostname, policy) ==
    \/ \E host \in policy.allowedHosts : CanonicalHost(hostname) = CanonicalHost(host)
    \/ \E domain \in policy.allowSubdomainsOf :
          \/ CanonicalHost(hostname) = CanonicalHost(domain)
          \/ <<CanonicalHost(hostname), CanonicalHost(domain)>> \in SubdomainPairs

\* C20: a policy with a host rule accepts a URL only if its host name, case and
\* trailing dots set aside, is one of the exact hosts or is a configured domain
\* or a dot-separated subdomain of one; a name that only ends with the domain's
\* characters is rejected; a policy without a host rule rejects no host.
C20_HostRule ==
    UrlValidated =>
        /\ (HasHostRule(probe.input.policy) /\ probe.result = NoError) =>
              HostMatchesRule(probe.input.url.hostname, probe.input.policy)
        /\ (/\ HasHostRule(probe.input.policy)
            /\ ~HostMatchesRule(probe.input.url.hostname, probe.input.policy)
            /\ probe.input.url.protocol \in probe.input.policy.allowedProtocols
            /\ ~probe.input.url.creds) =>
              probe.result = "URL hostname is not allowed"
        /\ ~HasHostRule(probe.input.policy) => probe.result # "URL hostname is not allowed"

C20_Witness ==
    /\ UrlValidated
    /\ probe.input.url.hostname = H_BAD_HFCO
    /\ probe.input.policy.allowSubdomainsOf = {<<"h","f",".","c","o",".">>}
    /\ ~probe.input.policy.hasAllowedHosts
    /\ probe.result = "URL hostname is not allowed"

\* The messages of the errors assertPathAllowed and the custom validators throw
PathMessages ==
    {"URL path contains invalid percent-encoding", "URL contains invalid percent-encoding",
     "URL path contains encoded separators", "URL path contains dot-segments",
     "URL path appears to use double-encoding", "URL path must start with"}

CustomMessages ==
    {"Hugging Face docs URLs must remain under /docs/",
     "HTTP is only allowed for localhost Gradio MCP endpoints"}

\* C32: validateUrlAgainstPolicy reports the violation of the first failing
\* check in the order protocol, embedded credentials, host, port, path, query,
\* custom validator: each check's error is the result exactly when that check
\* fails and every check before it passes, so the custom validator's error is
\* reported only for a URL that passed every built-in check.
C32_ChecksInFixedOrder ==
    UrlValidated =>
        LET url == probe.input.url
            policy == probe.input.policy
            protocolOk == url.protocol \in policy.allowedProtocols
            credsOk == policy.allowCredentials \/ ~url.creds
            hostOk == assertHostAllowed(url.hostname, policy) = NoError
            portOk == assertPortAllowed(url, policy) = NoError
            pathOk == assertPathAllowed(url, policy.requiredPrefix) = NoError
            queryOk == assertQueryAllowed(url, policy) = NoError
            customOk == customValidator(url, policy) = NoError
        IN  /\ (probe.result = "URL protocol is not allowed") <=> ~protocolOk
            /\ (probe.result = "URL credentials are not allowed") <=>
                   (protocolOk /\ ~credsOk)
            /\ (probe.result = "URL hostname is not allowed") <=>
                   (protocolOk /\ credsOk /\ ~hostOk)
            /\ (probe.result = "URL port is not allowed for protocol") <=>
                   (protocolOk /\ credsOk /\ hostOk /\ ~portOk)
            /\ (probe.result \in PathMessages) <=>
                   (protocolOk /\ credsOk /\ hostOk /\ portOk /\ ~pathOk)
            /\ (probe.result \in {"URL query string is not allowed",
                                  "URL query parameter is not allowed"}) <=>
                   (protocolOk /\ credsOk /\ hostOk /\ portOk /\ pathOk /\ ~queryOk)
            /\ (probe.result \in CustomMessages) <=>
                   (protocolOk /\ credsOk /\ hostOk /\ portOk /\ pathOk /\ queryOk
                    /\ ~customOk)

\* A URL with credentials, on a host and a port the policy refuses, with a
\* query key it refuses and a path its validator refuses: the credentials are
\* what is reported
C32_Witness ==
    /\ UrlValidated
    /\ probe.input.policy = EveryRulePolicy
    /\ probe.input.url.protocol = "https:"
    /\ probe.input.url.creds
    /\ probe.input.url.hostname = H_EXAMPLE
    /\ probe.input.url.port = "8443"
    /\ probe.input.url.query = {"token"}
    /\ probe.input.url.pathname = P_SECRET
    /\ probe.result = "URL credentials are not allowed"

\* C37: under a policy whose required path prefix P does not end in "/", an
\* accepted URL has a path that is P or is P followed by "/" and more; a path
\* that adds characters to the last segment of P is rejected.
C37_PrefixAtSegmentBoundary ==
    (/\ UrlValidated
     /\ probe.input.policy.requiredPrefix # <<>>
     /\ ~EndsWith(probe.input.policy.requiredPrefix, <<"/">>)
     /\ probe.result = NoError) =>
        \/ probe.input.url.pathname = probe.input.policy.requiredPrefix
        \/ StartsWith(probe.input.url.pathname,
                      probe.input.policy.requiredPrefix \o <<"/">>)

\* C33: a source whose listing holds a tool with a missing or non-object input
\* schema contributes no entry to the registry, and the entries of the other
\* sources are what they listed.
C33_BadSchemaSourceContributesNothing ==
    discovery.stage = "done" =>
        \A k \in 1..Len(discovery.sources) :
            IF discovery.tasks[k].outcome # "listed" THEN TRUE
            ELSE IF \E i \in 1..Len(discovery.tasks[k].listing) :
                       discovery.tasks[k].listing[i].schemaType # "object"
            THEN ContributionOf(k) = <<>>
            ELSE Len(ContributionOf(k)) = Len(discovery.tasks[k].listing)

\* ----------------------------- properties of the configuration parser

\* What each line of the model says, read off the format: nothing (a line to
\* skip), or a source
CsvSource(proxyId, protocol, responseType) ==
    <<[proxyId |-> proxyId, url |-> Url(protocol, <<"h",".","c","o">>, "", <<"/","m">>),
       responseType |-> responseType]>>

LineMeaning(line) ==
    CASE line = L_A_JSON -> CsvSource(<<"a">>, "https:", <<"J","S","O","N">>)
      [] line = L_A_SSE_HTTP -> CsvSource(<<"a">>, "http:", <<"S","S","E">>)
      [] line = L_B_SSE -> CsvSource(<<"b">>, "https:", <<"S","S","E">>)
      [] line = L_QUOTED -> CsvSource(<<"a",",","1">>, "https:", <<"S","S","E">>)
      [] OTHER -> <<>>

\* The sources of the lines, the first of each id
ExpectedSources(lines) ==
    LET meant == FlatMap([i \in 1..Len(lines) |-> LineMeaning(lines[i])])
        first(i) == ~\E j \in 1..(i - 1) : meant[j].proxyId = meant[i].proxyId
        kept == SelectSeq([i \in 1..Len(meant) |-> i], first)
    IN  [k \in 1..Len(kept) |-> meant[kept[k]]]

\* C35: in the list parseProxyToolsCsv returns the source ids are pairwise
\* distinct, every URL passes the http-or-https policy and every response type
\* is JSON or SSE; the list is that of the rows that pass every check, the first
\* of each id in their order, whatever comment lines, header rows, malformed
\* rows, rows with an invalid URL or response type and repeated ids stand
\* between them.
C35_ParsedSourcesWellFormed ==
    probe.fn = "parseProxyToolsCsv" =>
        /\ \A i, j \in 1..Len(probe.result) :
              i # j => probe.result[i].proxyId # probe.result[j].proxyId
        /\ \A i \in 1..Len(probe.result) :
              /\ validateUrlAgainstPolicy(probe.result[i].url, createHttpOrHttpsPolicy)
                    = NoError
              /\ probe.result[i].url.protocol \in {"https:", "http:"}
              /\ probe.result[i].responseType \in {<<"J","S","O","N">>, <<"S","S","E">>}
        /\ probe.result = ExpectedSources(probe.input.lines)

\* A row with a quoted id between a row with credentials in its URL and a row
\* that repeats the id a
C35_Witness ==
    /\ probe.fn = "parseProxyToolsCsv"
    /\ probe.input.lines = <<L_A_SSE_HTTP, L_B_CREDS, L_QUOTED>>
    /\ Len(probe.result) = 2
    /\ probe.result[1].proxyId = <<"a">>
    /\ probe.result[2].proxyId = <<"a",",","1">>

\* ------------------------------------------- properties of invokeSpace

\* C38: invokeSpace calls the upstream (connect, and so a session) only after
\* all six steps have passed: the parameters parsed as an object, the metadata
\* and the schema fetched, a tool found, the schema simple, the parameters
\* valid. When one of them fails nothing is connected to and no session is
\* opened, and when the parameters are no JSON object no request is made.
C38_SessionOnlyAfterValidation ==
    /\ (bridge.pc # "idle" \/ session.opened > 0) =>
          (invoke.passed = 6 /\ invoke.requests = 2 /\ invoke.failed \in {"", "call"})
    /\ invoke.failed \notin {"", "call"} =>
          /\ invoke.pc = "returned"
          /\ invoke.result = ErrorText
          /\ bridge = BridgeIdle
          /\ session = SessionNone
    /\ invoke.failed = "parameters" => (invoke.passed = 0 /\ invoke.requests = 0)
    /\ invoke.passed < 6 => (bridge = BridgeIdle /\ session = SessionNone)

\* The session of a call is open after the six steps
C38_Witness ==
    /\ invoke.pc = "calling"
    /\ invoke.passed = 6
    /\ invoke.requests = 2
    /\ bridge.pc = "requesting"
    /\ session.opened = 1

\* ------------------------------------- properties of HfDatasetLogger

\* C39: however the calls of processLog interleave with a flush in flight,
\* every entry processLog accepted is in the buffer, or was in an upload that
\* succeeded, or was shifted out of a full buffer; and at most one upload is in
\* progress at any time.
C39_NoAcceptedEntryLost ==
    /\ \A entry \in 1..logger.accepted :
          \/ \E i \in 1..Len(logger.logBuffer) : logger.logBuffer[i] = entry
          \/ entry \in logger.uploaded
          \/ entry \in logger.evicted
    /\ logger.uploads <= 1
    /\ logger.uploads = 1 <=> logger.uploadInProgress

====
